---- MODULE Spec2Model ----
(***************************************************************************)
(* FrontierFund mobile client.  The module models these parts of the       *)
(* client, each with its own variables and its own specification:          *)
(*   - the transaction API client (api/transactions.ts)         SpecApi    *)
(*   - CreateTransactionModal (components/StockTradingModal.tsx) SpecModal *)
(*   - TransactionCard and ProposalCard                          SpecCard   *)
(*   - RanchScreen (app/(tabs)/ranch.tsx)                        SpecRanch  *)
(*   - Index, LoginScreen and the logout of AccountScreen        SpecEntry  *)
(*   - HomeScreen (app/(auth)/index.tsx)                         SpecHome   *)
(* Spec is the application showing either the ranch screen or a card.      *)
(* The backend is an environment: it answers every request the client      *)
(* sends with an ok response, a non-ok response, or not at all.            *)
(***************************************************************************)
EXTENDS Integers, Sequences, FiniteSets, Bags, TLC

VARIABLES
    screen,        \* which part of the client is mounted
    voteSent,      \* history: how many vote calls / requests each transaction got
    \* ---- transaction API client
    apiPc,         \* "idle" | "fetching" | "done" (a response came) | "rejected"
    apiCall,       \* the call in progress: [fn, arg, token]
    apiSent,       \* the requests fetch() was given during the call
    apiResp,       \* the response fetch() resolved with
    apiResult,     \* how the call ended: a return value or a thrown error
    \* ---- CreateTransactionModal
    description,   \* useState(''): the description field, a sequence of characters
    amount,        \* useState(''): the amount field, a sequence of characters
    isSubmitting,  \* useState(false)
    groupBalance,  \* the groupBalance prop, in dollars
    modalOut,      \* what the last step did: alerts shown, onSubmit / onClose calls
    \* ---- TransactionCard / ProposalCard
    cardKind,      \* which of the two components is rendered
    cardTxn,       \* the transaction / proposal prop
    cardUser,      \* the currentUserId prop
    cardProps,     \* which of the optional callbacks onVote, onExecute, onRefresh are passed
    isVoting,      \* useState(false); true while the promise of onVote is pending
    isExecuting,   \* useState(false); true while the promise of onExecute is pending
    dialog,        \* the confirmation dialog: NULL or the transactionID its buttons captured
    cardOut,       \* what the last step did: callbacks called, alerts shown
    \* ---- RanchScreen
    session,       \* the control of the screen the user works with in this run
    storage,       \* AsyncStorage: [authToken, userId]
    authPc,        \* loadAuth: "reading" | "done"
    authToken, currentUserId,
    id,            \* the route parameter id
    focusClosure,  \* [id, authToken] of the render whose callback useFocusEffect holds
    ranchBalance, investedAmount, totalAssets, personalBalance,   \* in 1/1000 dollar
    memberList, memberCount,
    loading, refreshing,
    proposals, ledger,
    stockModalVisible, investModalVisible, withdrawModalVisible,
    depositModalVisible, inviteModalVisible, manageMembersModalVisible,
    transactionAmount, depositAmount, selectedUserId,
    tasks,         \* the async calls suspended at an await, a bag of records
    ranchOut,      \* what the last step did: requests sent, alerts shown, response handled
    \* ---- Index, LoginScreen, AccountScreen.handleLogout
    platform,      \* Platform.OS: "web" (localStorage) | "native" (SecureStore)
    route,         \* the route the router shows: "index" | "login" | "tabs"
    store,         \* SecureStore / localStorage: the values under authToken, userId, username
    isAuthenticated, \* Index: useState(null), "null" | "true" | "false"
    loginLoading,  \* LoginScreen: useState(false)
    loginTask,     \* handleLogin / handleSignup suspended at an await: [op, pc, data]
    writeLog,      \* history: the keys the running login handler has written
    logoutPc,      \* handleLogout: "idle" | "confirm" | the key whose removal is awaited
    lastEntry,     \* history: "login" | "logout" | "none", the last of them to complete
    entryOut,      \* what the last step did: request sent, alerts, navigation
    \* ---- HomeScreen
    ranches,       \* useState([]): the ranches loaded, [id, pendingApprovals]
    fetchingRanches, \* useState(true)
    homeLoading,   \* useState(false)
    homeTasks,     \* the calls of fetchRanches / handleAddNewRanch suspended at an await
    homeOut        \* what the last step did: value returned, requests sent, alerts

apiVars == <<apiPc, apiCall, apiSent, apiResp, apiResult>>
modalVars == <<description, amount, isSubmitting, groupBalance, modalOut>>
cardVars == <<cardKind, cardTxn, cardUser, cardProps, isVoting, isExecuting, dialog, cardOut>>
authVars == <<storage, authPc, authToken, currentUserId>>
moneyVars == <<ranchBalance, investedAmount, totalAssets, personalBalance>>
memberVars == <<memberList, memberCount>>
listVars == <<proposals, ledger>>
otherVisible == <<investModalVisible, withdrawModalVisible, depositModalVisible,
                  inviteModalVisible, manageMembersModalVisible>>
visibleVars == <<stockModalVisible, investModalVisible, withdrawModalVisible,
                 depositModalVisible, inviteModalVisible, manageMembersModalVisible>>
inputVars == <<transactionAmount, depositAmount, selectedUserId>>
ranchVars == <<session, authVars, id, focusClosure, moneyVars, memberVars, loading, refreshing,
               listVars, visibleVars, inputVars, tasks, ranchOut>>

entryVars == <<platform, route, store, isAuthenticated, loginLoading, loginTask, writeLog, logoutPc,
               lastEntry, entryOut>>

homeVars == <<ranches, fetchingRanches, homeLoading, homeTasks, homeOut>>

vars == <<screen, voteSent, apiVars, modalVars, cardVars, ranchVars, entryVars, homeVars>>

\* What the steps of one part leave alone.
ApiFrame == UNCHANGED <<screen, voteSent, modalVars, cardVars, ranchVars, entryVars, homeVars>>
ModalFrame == UNCHANGED <<screen, voteSent, apiVars, cardVars, ranchVars, entryVars, homeVars>>
CardFrame == UNCHANGED <<screen, apiVars, modalVars, ranchVars, entryVars, homeVars>>
RanchFrame == UNCHANGED <<screen, session, apiVars, modalVars, cardVars, entryVars, homeVars>>
EntryFrame ==
    UNCHANGED <<screen, voteSent, apiVars, modalVars, cardVars, ranchVars, homeVars>>
HomeFrame ==
    UNCHANGED <<screen, voteSent, apiVars, modalVars, cardVars, ranchVars, entryVars>>

NULL == "null"

(***************************************************************************)
(* Transaction API client                                                  *)
(***************************************************************************)
Tokens == {"tokA", "tokB"}
TxnIds == {"t1", "t2", "t3"}
Groups == {"g1", "g2"}

GetFns == {"getGroupTransactions", "getTransactionHistory", "getTransaction"}
PostFns == {"createTransaction", "voteOnTransaction", "executeTransaction"}
ApiFns == GetFns \cup PostFns

\* The argument each function interpolates into its URL ("-" when it has none).
ApiArgs(fn) ==
    CASE fn = "getGroupTransactions" -> Groups
      [] fn \in {"getTransaction", "voteOnTransaction", "executeTransaction"} -> TxnIds
      [] OTHER -> {"-"}

\* A JSON object body is a function from its keys to values; "undefined" marks
\* a key the object does not have.  detail may be the empty string.
Details == {"undefined", "", "You have already voted"}
JsonObjects ==
    [detail : Details,
     transactions : {"undefined", "txnList"},
     transaction : {"undefined", "txn"},
     message : {"undefined", "Vote recorded"}]

\* A response: its ok flag and its body, which either parses as a JSON object
\* or does not parse (plain text, HTML, empty).
Responses ==
    [ok : BOOLEAN, parses : BOOLEAN, json : JsonObjects]

NoCall == [fn |-> "none", arg |-> "-", token |-> NULL]
NoResp == [ok |-> FALSE, parses |-> FALSE,
           json |-> [detail |-> "undefined", transactions |-> "undefined",
                     transaction |-> "undefined", message |-> "undefined"]]
NoResult == [kind |-> "none", error |-> "none", message |-> "none", value |-> "none"]

ApiMethod(fn) == IF fn \in GetFns THEN "GET" ELSE "POST"

ApiPath(fn, arg) ==
    CASE fn = "getGroupTransactions" -> <<"/transactions?groupId=", arg>>
      [] fn = "getTransactionHistory" -> <<"/transactions/history/me">>
      [] fn = "getTransaction" -> <<"/transactions/", arg>>
      [] fn = "createTransaction" -> <<"/transactions">>
      [] fn = "voteOnTransaction" -> <<"/transactions/", arg, "/vote">>
      [] fn = "executeTransaction" -> <<"/transactions/", arg, "/execute">>

Bearer(token) == <<"Bearer ", token>>

\* The request a function hands to fetch().
ApiRequestNoAuth(fn, arg, token) ==
    [method |-> ApiMethod(fn), path |-> ApiPath(fn, arg), auth |-> <<>>]

ApiRequest(fn, arg, token) ==
    [method |-> ApiMethod(fn), path |-> ApiPath(fn, arg), auth |-> Bearer(token)]

DefaultMessage(fn) ==
    CASE fn = "getGroupTransactions" -> "Failed to fetch transactions"
      [] fn = "getTransactionHistory" -> "Failed to fetch transaction history"
      [] fn = "getTransaction" -> "Failed to fetch transaction"
      [] fn = "createTransaction" -> "Failed to create transaction"
      [] fn = "voteOnTransaction" -> "Failed to vote on transaction"
      [] fn = "executeTransaction" -> "Failed to execute transaction"

\* JavaScript's  x || y  on strings: "" and undefined are falsy.
OrElse(x, y) == IF x \in {"undefined", ""} THEN y ELSE x

Threw(error, message) ==
    [kind |-> "throw", error |-> error, message |-> message, value |-> "none"]

Returned(value) ==
    [kind |-> "return", error |-> "none", message |-> "none", value |-> value]

\* await response.json(): rejects with a SyntaxError when the body is not JSON.
JsonFails(resp) == ~resp.parses

\* What a function does with the response: lines 67-73 and their five copies.
ApiOutcome(fn, resp) ==
    IF JsonFails(resp)
    THEN Threw("SyntaxError", "JSON Parse error")
    ELSE IF ~resp.ok
         THEN Threw("Error", OrElse(resp.json.detail, DefaultMessage(fn)))
         ELSE CASE fn \in {"getGroupTransactions", "getTransactionHistory"} ->
                       Returned(resp.json.transactions)
                [] fn = "getTransaction" -> Returned(resp.json.transaction)
                [] OTHER -> Returned(resp.json)

InitApi ==
    /\ apiPc = "idle"
    /\ apiCall = NoCall
    /\ apiSent = <<>>
    /\ apiResp = NoResp
    /\ apiResult = NoResult

\* A caller invokes one of the six functions: the function calls fetch() once.
ApiInvoke(fn, arg, token) ==
    /\ screen = "api"
    /\ apiPc \in {"idle", "done", "rejected"}
    /\ apiPc' = "fetching"
    /\ apiCall' = [fn |-> fn, arg |-> arg, token |-> token]
    /\ apiSent' = <<ApiRequest(fn, arg, token)>>
    /\ apiResp' = NoResp
    /\ apiResult' = NoResult
    /\ ApiFrame

\* fetch() resolves with a response.
ApiRespond(resp) ==
    /\ screen = "api"
    /\ apiPc = "fetching"
    /\ apiPc' = "done"
    /\ apiResp' = resp
    /\ apiResult' = ApiOutcome(apiCall.fn, resp)
    /\ UNCHANGED <<apiCall, apiSent>>
    /\ ApiFrame

\* fetch() rejects (no connection): the rejection propagates to the caller.
ApiNetworkError ==
    /\ screen = "api"
    /\ apiPc = "fetching"
    /\ apiPc' = "rejected"
    /\ apiResult' = Threw("TypeError", "Network request failed")
    /\ UNCHANGED <<apiCall, apiSent, apiResp>>
    /\ ApiFrame

ApiNext ==
    \/ \E fn \in ApiFns : \E arg \in ApiArgs(fn) : \E token \in Tokens :
          ApiInvoke(fn, arg, token)
    \/ \E resp \in Responses : ApiRespond(resp)
    \/ ApiNetworkError

(***************************************************************************)
(* CreateTransactionModal (components/StockTradingModal.tsx)               *)
(* Text is a sequence of one-character strings.  Numbers parsed from text  *)
(* are exact decimals: num / 10^scale.                                     *)
(***************************************************************************)
MaxDescLen == 2
MaxAmountLen == 3
DescChars == {" ", "a"}
AmountChars == {"0", "5", ".", "-", " ", "x"}
GroupBalances == {0, 5}

IsDigit(c) == c \in {"0", "1", "2", "3", "4", "5", "6", "7", "8", "9"}

DigitVal(c) ==
    CASE c = "0" -> 0 [] c = "1" -> 1 [] c = "2" -> 2 [] c = "3" -> 3
      [] c = "4" -> 4 [] c = "5" -> 5 [] c = "6" -> 6 [] c = "7" -> 7
      [] c = "8" -> 8 [] c = "9" -> 9

RECURSIVE Pow10(_)
Pow10(n) == IF n = 0 THEN 1 ELSE 10 * Pow10(n - 1)

RECURSIVE SkipSpaces(_)
SkipSpaces(s) ==
    IF s # <<>> /\ Head(s) = " " THEN SkipSpaces(Tail(s)) ELSE s

RECURSIVE DropTrailingSpaces(_)
DropTrailingSpaces(s) ==
    IF s # <<>> /\ s[Len(s)] = " "
    THEN DropTrailingSpaces(SubSeq(s, 1, Len(s) - 1))
    ELSE s

\* String.prototype.trim
Trim(s) == DropTrailingSpaces(SkipSpaces(s))

RECURSIVE DigitPrefix(_)
DigitPrefix(s) ==
    IF s # <<>> /\ IsDigit(Head(s))
    THEN <<Head(s)>> \o DigitPrefix(Tail(s))
    ELSE <<>>

RECURSIVE DigitsValue(_)
DigitsValue(ds) ==
    IF ds = <<>> THEN 0
    ELSE 10 * DigitsValue(SubSeq(ds, 1, Len(ds) - 1)) + DigitVal(ds[Len(ds)])

NaN == [nan |-> TRUE, num |-> 0, scale |-> 0]

\* parseFloat on text without exponent or "Infinity": leading white space is
\* skipped, then the longest prefix  [+-] digits [. digits]  with at least one
\* digit is the number; with no such prefix the result is NaN.
ParseFloat(str) ==
    LET s1 == SkipSpaces(str)
        signed == s1 # <<>> /\ Head(s1) \in {"-", "+"}
        neg == s1 # <<>> /\ Head(s1) = "-"
        s2 == IF signed THEN Tail(s1) ELSE s1
        ip == DigitPrefix(s2)
        s3 == SubSeq(s2, Len(ip) + 1, Len(s2))
        fp == IF s3 # <<>> /\ Head(s3) = "." THEN DigitPrefix(Tail(s3)) ELSE <<>>
        mag == DigitsValue(ip \o fp)
    IN  IF ip = <<>> /\ fp = <<>>
        THEN NaN
        ELSE [nan |-> FALSE, num |-> IF neg THEN 0 - mag ELSE mag, scale |-> Len(fp)]

\* !x for a number: NaN and 0 are falsy.
Falsy(x) == x.nan \/ x.num = 0

GtNever(x, n) == FALSE

\* x > n and x <= n for a parsed number x and an integer n (false for NaN).
Gt(x, n) == ~x.nan /\ x.num > n * Pow10(x.scale)

Le(x, n) == ~x.nan /\ x.num <= n * Pow10(x.scale)

\* Line 501:  !description.trim()
DescriptionMissing(d) == Trim(d) = <<>>

\* Line 507:  !numAmount || numAmount <= 0
AmountInvalidAllowsZero(x) == x.nan \/ x.num < 0

AmountInvalid(x) == Falsy(x) \/ Le(x, 0)

NoModalOut == [step |-> "none", alerts |-> <<>>, onSubmit |-> <<>>, onClose |-> 0]

InitModal ==
    /\ description = <<>>
    /\ amount = <<>>
    /\ isSubmitting = FALSE
    /\ groupBalance \in GroupBalances
    /\ modalOut = NoModalOut

\* onChangeText of the description input: a key is typed or deleted.
ModalEditDescription ==
    /\ screen = "modal"
    /\ \/ \E c \in DescChars :
             /\ Len(description) < MaxDescLen
             /\ description' = Append(description, c)
       \/ /\ description # <<>>
          /\ description' = SubSeq(description, 1, Len(description) - 1)
    /\ modalOut' = [NoModalOut EXCEPT !.step = "edit"]
    /\ UNCHANGED <<amount, isSubmitting, groupBalance>>
    /\ ModalFrame

\* onChangeText of the amount input.
ModalEditAmount ==
    /\ screen = "modal"
    /\ \/ \E c \in AmountChars :
             /\ Len(amount) < MaxAmountLen
             /\ amount' = Append(amount, c)
       \/ /\ amount # <<>>
          /\ amount' = SubSeq(amount, 1, Len(amount) - 1)
    /\ modalOut' = [NoModalOut EXCEPT !.step = "edit"]
    /\ UNCHANGED <<description, isSubmitting, groupBalance>>
    /\ ModalFrame

\* handleSubmit up to its await (the Propose button is disabled while
\* isSubmitting).
ModalHandleSubmit ==
    /\ screen = "modal"
    /\ ~isSubmitting
    /\ LET numAmount == ParseFloat(amount) IN
       IF DescriptionMissing(description)
       THEN /\ modalOut' = [step |-> "handleSubmit",
                            alerts |-> <<<<"Error", "Please enter a description">>>>,
                            onSubmit |-> <<>>, onClose |-> 0]
            /\ UNCHANGED isSubmitting
       ELSE IF AmountInvalid(numAmount)
       THEN /\ modalOut' = [step |-> "handleSubmit",
                            alerts |-> <<<<"Error",
                                          "Please enter a valid amount greater than 0">>>>,
                            onSubmit |-> <<>>, onClose |-> 0]
            /\ UNCHANGED isSubmitting
       ELSE /\ modalOut' = [step |-> "handleSubmit",
                            alerts |-> IF Gt(numAmount, groupBalance)
                                       THEN <<<<"Warning", "exceeds group balance">>>>
                                       ELSE <<>>,
                            onSubmit |-> <<[description |-> description,
                                            amount |-> numAmount]>>,
                            onClose |-> 0]
            /\ isSubmitting' = TRUE
    /\ UNCHANGED <<description, amount, groupBalance>>
    /\ ModalFrame

\* The promise onSubmit returned settles: lines 523-533.
ModalSubmitSettles(resolved) ==
    /\ screen = "modal"
    /\ isSubmitting
    /\ IF resolved
       THEN /\ description' = <<>>
            /\ amount' = <<>>
            /\ modalOut' = [step |-> "settled",
                            alerts |-> <<<<"Success",
                                          "Transaction proposed! Members can now vote.">>>>,
                            onSubmit |-> <<>>, onClose |-> 1]
       ELSE /\ modalOut' = [step |-> "settled",
                            alerts |-> <<<<"Error", "Failed to create transaction">>>>,
                            onSubmit |-> <<>>, onClose |-> 0]
            /\ UNCHANGED <<description, amount>>
    /\ isSubmitting' = FALSE
    /\ UNCHANGED groupBalance
    /\ ModalFrame

\* handleCancel: the close button and the backdrop are never disabled.
ModalHandleCancel ==
    /\ screen = "modal"
    /\ description' = <<>>
    /\ amount' = <<>>
    /\ modalOut' = [step |-> "handleCancel", alerts |-> <<>>,
                    onSubmit |-> <<>>, onClose |-> 1]
    /\ UNCHANGED <<isSubmitting, groupBalance>>
    /\ ModalFrame

ModalNext ==
    \/ ModalEditDescription
    \/ ModalEditAmount
    \/ ModalHandleSubmit
    \/ \E resolved \in BOOLEAN : ModalSubmitSettles(resolved)
    \/ ModalHandleCancel

(***************************************************************************)
(* Transactions as the components receive them                             *)
(***************************************************************************)
Users == {"u1", "u2"}
Statuses == {"pending", "approved", "rejected", "executed"}
VoteTypes == {"approve", "reject"}

\* votes: Record<string, 'approve' | 'reject'>, a function from the user ids
\* that voted to their votes.
VoteMaps == UNION {[S -> VoteTypes] : S \in SUBSET Users}
NoVotes == [u \in {} |-> "approve"]

Tx(tid, gid, status, votes) ==
    [transactionID |-> tid, groupID |-> gid, status |-> status, votes |-> votes]

MaxVoteSent == 2
NoVoteSent == [t \in TxnIds |-> 0]

(***************************************************************************)
(* TransactionCard (components/transaction-card.tsx) and ProposalCard      *)
(* (unnamed/part_001).  The parent passes the props and may pass a new     *)
(* transaction at any time; the callbacks are the parent's.                *)
(***************************************************************************)
CardKinds == {"TransactionCard", "ProposalCard"}
CardTxns == {Tx("t1", "g1", s, v) : s \in Statuses, v \in VoteMaps}

\* onVote?, onExecute?, onRefresh? are optional in TransactionCardProps;
\* ProposalCardProps requires onVote and onExecute and has no onRefresh.
CardPropSets(kind) ==
    IF kind = "TransactionCard"
    THEN [onVote : BOOLEAN, onExecute : BOOLEAN, onRefresh : BOOLEAN]
    ELSE {[onVote |-> TRUE, onExecute |-> TRUE, onRefresh |-> FALSE]}

\* transaction-card.tsx line 30:  transaction.votes && currentUserId in transaction.votes
userHasVoted(transaction, uid) == uid \in DOMAIN transaction.votes

\* Line 146: the vote buttons are rendered.
CardVoteShown(transaction, uid, onVote) ==
    transaction.status = "pending" /\ ~userHasVoted(transaction, uid) /\ onVote

\* Line 170: the execute button is rendered.
CardExecuteShownUnlessExecuted(transaction, onExecute) ==
    transaction.status # "executed" /\ onExecute

CardExecuteShown(transaction, onExecute) ==
    transaction.status = "approved" /\ onExecute

\* part_001 line 22:  Object.keys(proposal.votes).includes(currentUserId)
hasVoted(proposal, uid) == uid \in DOMAIN proposal.votes

\* part_001 lines 75-94: the vote buttons are rendered.
ProposalVoteShownUnlessVoted(proposal, uid) == ~hasVoted(proposal, uid)

ProposalVoteShown(proposal, uid) ==
    IF hasVoted(proposal, uid) THEN FALSE ELSE proposal.status = "pending"

\* part_001 line 96: the execute button is rendered.
ProposalExecuteShown(proposal) == proposal.status = "approved"

\* The buttons of the dialog handleExecute opens (lines 85-103): the onExecute
\* calls the chosen button makes.  'Cancel' has no onPress.
DialogButtons == {"Cancel", "Execute"}

DialogOnExecuteAnyButton(button, tid) == <<tid>>

DialogOnExecute(button, tid) == IF button = "Execute" THEN <<tid>> ELSE <<>>

NoCardOut ==
    [step |-> "none", onVote |-> <<>>, onExecute |-> <<>>, onRefresh |-> 0,
     alerts |-> <<>>]

InitCard ==
    /\ cardKind \in CardKinds
    /\ cardTxn \in CardTxns
    /\ cardUser \in Users
    /\ cardProps \in CardPropSets(cardKind)
    /\ isVoting = FALSE
    /\ isExecuting = FALSE
    /\ dialog = NULL
    /\ cardOut = NoCardOut

\* No card is rendered.
NoCard ==
    /\ cardKind = "TransactionCard"
    /\ cardTxn = Tx("t1", "g1", "pending", NoVotes)
    /\ cardUser = "u1"
    /\ cardProps = [onVote |-> FALSE, onExecute |-> FALSE, onRefresh |-> FALSE]
    /\ isVoting = FALSE
    /\ isExecuting = FALSE
    /\ dialog = NULL
    /\ cardOut = NoCardOut

\* The parent renders the card with another state of the same transaction.
CardPropsChange(txn) ==
    /\ screen = "card"
    /\ txn # cardTxn
    /\ txn.transactionID = cardTxn.transactionID
    /\ cardTxn' = txn
    /\ cardOut' = [NoCardOut EXCEPT !.step = "props"]
    /\ UNCHANGED <<cardKind, cardUser, cardProps, isVoting, isExecuting, dialog, voteSent>>
    /\ CardFrame

\* TransactionCard.handleVote up to its await (lines 66-71).  The buttons
\* exist while line 146 holds, are disabled while isVoting, and cannot be
\* reached behind the dialog.
CardHandleVote(vote) ==
    /\ screen = "card"
    /\ cardKind = "TransactionCard"
    /\ dialog = NULL
    /\ CardVoteShown(cardTxn, cardUser, cardProps.onVote)
    /\ ~isVoting
    /\ voteSent[cardTxn.transactionID] < MaxVoteSent
    /\ IF ~cardProps.onVote \/ userHasVoted(cardTxn, cardUser)
       THEN /\ cardOut' = [NoCardOut EXCEPT !.step = "handleVote"]
            /\ UNCHANGED <<isVoting, voteSent>>
       ELSE /\ isVoting' = TRUE
            /\ cardOut' = [NoCardOut EXCEPT !.step = "handleVote",
                                            !.onVote = <<<<cardTxn.transactionID, vote>>>>]
            /\ voteSent' = [voteSent EXCEPT ![cardTxn.transactionID] = @ + 1]
    /\ UNCHANGED <<cardKind, cardTxn, cardUser, cardProps, isExecuting, dialog>>
    /\ CardFrame

\* handleVote after its await (lines 71-76): the promise of onVote settled.
CardVoteSettles(resolved) ==
    /\ screen = "card"
    /\ isVoting
    /\ isVoting' = FALSE
    /\ cardOut' = IF resolved
                  THEN [NoCardOut EXCEPT !.step = "voteSettled",
                                         !.onRefresh = IF cardProps.onRefresh THEN 1 ELSE 0]
                  ELSE [NoCardOut EXCEPT !.step = "voteSettled",
                                         !.alerts = <<<<"Error", "Failed to vote">>>>]
    /\ UNCHANGED <<cardKind, cardTxn, cardUser, cardProps, isExecuting, dialog, voteSent>>
    /\ CardFrame

\* TransactionCard.handleExecute (lines 80-105): opens the dialog.  Its
\* buttons capture the transaction of this render.
CardHandleExecute ==
    /\ screen = "card"
    /\ cardKind = "TransactionCard"
    /\ dialog = NULL
    /\ CardExecuteShown(cardTxn, cardProps.onExecute)
    /\ ~isExecuting
    /\ dialog' = IF cardProps.onExecute THEN cardTxn.transactionID ELSE NULL
    /\ cardOut' = [NoCardOut EXCEPT !.step = "handleExecute"]
    /\ UNCHANGED <<cardKind, cardTxn, cardUser, cardProps, isVoting, isExecuting, voteSent>>
    /\ CardFrame

\* The user chooses a button of the dialog; 'Execute' runs lines 90-94 up to
\* the await.
CardDialogChoose(button) ==
    /\ screen = "card"
    /\ dialog # NULL
    /\ dialog' = NULL
    /\ LET calls == DialogOnExecute(button, dialog) IN
       /\ isExecuting' = IF calls # <<>> THEN TRUE ELSE isExecuting
       /\ cardOut' = [NoCardOut EXCEPT !.step = button, !.onExecute = calls]
    /\ UNCHANGED <<cardKind, cardTxn, cardUser, cardProps, isVoting, voteSent>>
    /\ CardFrame

\* The onPress of 'Execute' after its await (lines 94-100).
CardExecuteSettles(resolved) ==
    /\ screen = "card"
    /\ isExecuting
    /\ isExecuting' = FALSE
    /\ cardOut' = IF resolved
                  THEN [NoCardOut EXCEPT !.step = "executeSettled",
                                         !.onRefresh = IF cardProps.onRefresh THEN 1 ELSE 0]
                  ELSE [NoCardOut EXCEPT !.step = "executeSettled",
                                         !.alerts = <<<<"Error", "Failed to execute">>>>]
    /\ UNCHANGED <<cardKind, cardTxn, cardUser, cardProps, isVoting, dialog, voteSent>>
    /\ CardFrame

\* ProposalCard: the vote buttons call onVote directly (part_001 lines 83, 89).
ProposalPressVote(vote) ==
    /\ screen = "card"
    /\ cardKind = "ProposalCard"
    /\ ProposalVoteShown(cardTxn, cardUser)
    /\ voteSent[cardTxn.transactionID] < MaxVoteSent
    /\ cardOut' = [NoCardOut EXCEPT !.step = "pressVote",
                                    !.onVote = <<<<cardTxn.transactionID, vote>>>>]
    /\ voteSent' = [voteSent EXCEPT ![cardTxn.transactionID] = @ + 1]
    /\ UNCHANGED <<cardKind, cardTxn, cardUser, cardProps, isVoting, isExecuting, dialog>>
    /\ CardFrame

\* ProposalCard: the execute button calls onExecute directly (line 99).
ProposalPressExecute ==
    /\ screen = "card"
    /\ cardKind = "ProposalCard"
    /\ ProposalExecuteShown(cardTxn)
    /\ cardOut' = [NoCardOut EXCEPT !.step = "pressExecute",
                                    !.onExecute = <<cardTxn.transactionID>>]
    /\ UNCHANGED <<cardKind, cardTxn, cardUser, cardProps, isVoting, isExecuting, dialog,
                   voteSent>>
    /\ CardFrame

CardNext ==
    \/ \E txn \in CardTxns : CardPropsChange(txn)
    \/ \E vote \in VoteTypes : CardHandleVote(vote)
    \/ \E resolved \in BOOLEAN : CardVoteSettles(resolved)
    \/ CardHandleExecute
    \/ \E button \in DialogButtons : CardDialogChoose(button)
    \/ \E resolved \in BOOLEAN : CardExecuteSettles(resolved)
    \/ \E vote \in VoteTypes : ProposalPressVote(vote)
    \/ ProposalPressExecute

(***************************************************************************)
(* RanchScreen (app/(tabs)/ranch.tsx)                                      *)
(* Money is counted in 1/1000 dollar, so that rounding to cents is visible.*)
(* An async function that is suspended at an await is a task: the handler  *)
(* it belongs to (op), the await it is suspended at (pc), the fetch        *)
(* functions the handler still has to call (rest), the id and authToken of *)
(* the render whose closure it is (cid, ctok), and its arguments (arg).    *)
(* The backend answers a request with a response, with a network error, or *)
(* not at all: a task whose request is never answered stays suspended for  *)
(* ever and is not recorded.  MaxTasks bounds the tasks that are.          *)
(* A run explores the user working with one control of the screen          *)
(* (session): the proposal list, the way to and from the Home screen, or   *)
(* one of the action buttons with its modal; loadAuth and the mount effect *)
(* run in every session.                                                   *)
(* handleDelete and handleLeave, which leave the screen, are not modelled. *)
(***************************************************************************)
MaxTasks == 1

\* A number the JSON body does not carry (undefined).
UNDEF == -1

\* useState(10000): the mock personal balance, $10000.
MockPersonalBalance == 10000000

\* The route parameters balance and members the screen is opened with.
RouteBalance == 5000
RouteMembers == <<"u1", "u2">>

Sessions == {"proposals", "navigation", "stock", "withdraw", "deposit", "members"}

Storages ==
    {[authToken |-> NULL, userId |-> NULL],
     [authToken |-> "tokA", userId |-> NULL],
     [authToken |-> "tokA", userId |-> "u1"]}

\* The texts the amount inputs are given (onChangeText passes the whole text).
RanchAmountTexts == {<<>>, <<"0">>, <<"5">>, <<"9">>, <<"-", "5">>}
InviteCandidates == {"u2"}

(* ---- response bodies ---- *)
EmptyBody ==
    [hasGroup |-> FALSE, gBalance |-> UNDEF, gInvested |-> UNDEF, gTotal |-> UNDEF,
     gMembers |-> <<>>, balance |-> UNDEF, transactions |-> <<>>, userBalance |-> UNDEF]

\* GET /groups/{id}: { group: { balance, investedAmount, totalAssets, members } }
\* or the older shape { balance } without group.
GroupBodies ==
    {[EmptyBody EXCEPT !.hasGroup = TRUE, !.gBalance = 12345, !.gInvested = 2004,
                       !.gTotal = 14349, !.gMembers = <<"u1", "u2">>],
     [EmptyBody EXCEPT !.hasGroup = TRUE, !.gBalance = 0, !.gMembers = <<"u1">>,
                       !.balance = 7000]}

RanchVoteMaps == {NoVotes, [u \in {"u1"} |-> "approve"]}
T1Variants == {Tx("t1", "g1", s, v) : s \in Statuses, v \in RanchVoteMaps}
T2 == Tx("t2", "g2", "approved", NoVotes)

\* GET /transactions?groupId=: { transactions: [...] }; the server may return
\* transactions of another group.
TxnLists ==
    {<<>>, <<Tx("t1", "g1", "pending", NoVotes), T2>>,
     <<Tx("t3", "g1", "rejected", NoVotes), T2, Tx("t1", "g1", "pending", NoVotes)>>,
     <<Tx("t3", "g1", "executed", NoVotes), Tx("t1", "g1", "approved", NoVotes)>>}
    \cup {<<a>> : a \in T1Variants}

ProposalBodies == {[EmptyBody EXCEPT !.transactions = l] : l \in TxnLists}
\* GET /users/me: { balance }
MeBodies == {[EmptyBody EXCEPT !.balance = b] : b \in {UNDEF, 5000}}
\* POST /groups/{id}/deposit: { userBalance }
DepositBodies == {[EmptyBody EXCEPT !.userBalance = b] : b \in {UNDEF, 3000}}

RanchDetails == {"undefined", "Already voted", "User is already a member"}

\* A response: kind "neterr" is fetch() rejecting; parses tells whether
\* response.json() resolves.
Resp(kind, parses, detail, body) ==
    [kind |-> kind, parses |-> parses, detail |-> detail, body |-> body]

FailureResponses ==
    {Resp("neterr", FALSE, "undefined", EmptyBody),
     Resp("notok", FALSE, "undefined", EmptyBody),
     Resp("ok", FALSE, "undefined", EmptyBody)}
    \cup {Resp("notok", TRUE, d, EmptyBody) : d \in RanchDetails}

OkBodies(t) ==
    CASE t.pc = "group" -> GroupBodies
      [] t.pc = "proposals" -> ProposalBodies
      [] t.pc = "me" -> MeBodies
      [] t.pc = "mutate" /\ t.op = "deposit" -> DepositBodies
      [] OTHER -> {EmptyBody}

RanchResponses(t) ==
    FailureResponses \cup {Resp("ok", TRUE, "undefined", b) : b \in OkBodies(t)}

(* ---- pure parts of the handlers ---- *)
\* x || y on numbers: undefined and 0 are falsy.
NumOr(x, y) == IF x = UNDEF \/ x = 0 THEN y ELSE x

\* Math.round(x * 100) / 100 for x >= 0, x in 1/1000.
RoundCents(x) == 10 * ((x + 5) \div 10)

\* Lines 264-270 of fetchGroupData.
GroupBalanceOf(body) == RoundCents(NumOr(body.gBalance, NumOr(body.balance, 0)))
GroupInvestedOf(body) == RoundCents(NumOr(body.gInvested, 0))
GroupTotalOf(body) == RoundCents(NumOr(body.gTotal, NumOr(body.gBalance, 0)))

\* Line 172:  data.balance || 0
PersonalBalanceKeepMock(body) ==
    IF body.balance = UNDEF THEN MockPersonalBalance ELSE body.balance

PersonalBalanceOf(body) == NumOr(body.balance, 0)

\* Lines 740-742:  if (data.userBalance !== undefined) setPersonalBalance(...)
BalanceAfterDeposit(balance, body) ==
    IF body.userBalance # UNDEF THEN body.userBalance ELSE balance

\* Lines 325-335 of fetchProposals, with the id of the closure.
ThisGroupTransactions(txns, gid) == SelectSeq(txns, LAMBDA t : t.groupID = gid)

PendingProposalsApproved(txns, gid) ==
    [i \in 1..Len(txns) |-> [txns[i] EXCEPT !.status = "approved"]]

PendingProposals(txns, gid) ==
    SelectSeq(ThisGroupTransactions(txns, gid), LAMBDA t : t.status # "executed")

ExecutedTransactionsAll(txns, gid) == ThisGroupTransactions(txns, gid)

ExecutedTransactions(txns, gid) ==
    SelectSeq(ThisGroupTransactions(txns, gid), LAMBDA t : t.status = "executed")

\* Line 1004:  proposal.votes?.[currentUserId || ""]
userVote(proposal, uid) ==
    LET key == IF uid = NULL THEN "" ELSE uid IN
    IF key \in DOMAIN proposal.votes THEN proposal.votes[key] ELSE "undefined"

\* Lines 1068-1096: the vote buttons of a proposal row are rendered.
RanchVoteShownAnyStatus(proposal, uid) == userVote(proposal, uid) \in {"undefined", ""}

RanchVoteShown(proposal, uid) ==
    IF userVote(proposal, uid) \notin {"undefined", ""}
    THEN FALSE
    ELSE proposal.status = "pending"

\* Line 1099: the execute button of a proposal row is rendered.
RanchExecuteShown(proposal) == proposal.status = "approved"

GtMoneyNever(x, m) == FALSE

\* amount > balance for a parsed amount in dollars and a balance in 1/1000.
GtMoney(x, m) == ~x.nan /\ x.num * 1000 > m * Pow10(x.scale)

\* !amount || amount <= 0
RanchAmountInvalid(x) == Falsy(x) \/ Le(x, 0)

(* ---- requests ---- *)
Get(path, token) == [method |-> "GET", path |-> path, auth |-> Bearer(token)]
Post(path, token) == [method |-> "POST", path |-> path, auth |-> Bearer(token)]

\* The early returns of the fetch functions (lines 158, 248-249, 300-305);
\* handleInvite's own request to /users/all (line 773) has none.
CanFetch(fn, cid, ctok) ==
    CASE fn = "fetchPersonalBalance" -> ctok # NULL
      [] fn = "fetchUsers" -> TRUE
      [] OTHER -> cid # NULL /\ ctok # NULL

FirstPc(fn) ==
    CASE fn = "fetchGroupData" -> "group"
      [] fn = "fetchProposals" -> "proposals"
      [] fn = "fetchPersonalBalance" -> "me"
      [] fn = "fetchUsers" -> "allUsers"

FetchPath(pc, cid) ==
    CASE pc = "group" -> <<"/groups/", cid>>
      [] pc = "users" -> <<"/users/all">>
      [] pc = "proposals" -> <<"/transactions?groupId=", cid>>
      [] pc = "me" -> <<"/users/me">>
      [] pc = "allUsers" -> <<"/users/all">>
      [] pc = "holdings" -> <<"/groups/", cid, "/holdings">>

MutateOps == {"vote", "execute", "invest", "withdraw", "deposit", "addMember", "trade"}

MutatePath(op, cid, arg) ==
    CASE op = "vote" -> <<"/transactions/", arg[1], "/vote">>
      [] op = "execute" -> <<"/transactions/", arg[1], "/execute">>
      [] op \in {"invest", "withdraw"} -> <<"/transactions">>
      [] op = "deposit" -> <<"/groups/", cid, "/deposit">>
      [] op = "addMember" -> <<"/groups/", cid, "/members">>
      [] op = "trade" -> <<"/stocks/trade">>

\* The fetch functions a handler awaits, in order, after an ok response.
FollowUps(op) ==
    CASE op = "vote" -> <<"fetchProposals", "fetchGroupData">>
      [] op = "execute" -> <<"fetchProposals", "fetchGroupData", "fetchPersonalBalance">>
      [] op = "invest" -> <<"fetchProposals">>
      [] op = "withdraw" -> <<"fetchProposals", "fetchGroupData">>
      [] op = "deposit" -> <<"fetchGroupData">>
      [] op = "addMember" -> <<"fetchGroupData">>
      [] op = "trade" -> <<"fetchProposals", "fetchGroupData">>

\* What a handler calls after the alert of its failure branch: nothing.
FailureFollowUpsRefresh(op) == <<"fetchProposals">>

FailureFollowUps(op) == <<>>

\* The handlers that call response.json() on an ok response.
ParsesOnOk == {"execute", "invest", "deposit", "trade"}

\* The handlers that wrap their request in setLoading(true) ... finally
\* setLoading(false).
LoadingOps == {"invest", "withdraw", "deposit", "addMember", "invite"}

Fallback(op) ==
    CASE op = "vote" -> "Failed to vote"
      [] op = "execute" -> "Failed to execute"
      [] op = "invest" -> "Failed to create proposal"
      [] op = "withdraw" -> "Failed to create withdrawal proposal"
      [] op = "deposit" -> "Failed to deposit"
      [] op = "addMember" -> "Failed to add member"
      [] op = "trade" -> "Failed to create trade proposal"

\* How a handler takes the response to its own request.
\*   "ok"      the response.ok branch runs
\*   "notok"   the else branch runs and shows the server's detail or the fallback
\*   "caught"  the catch block runs: fetch() or response.json() rejected
Outcome(op, r) ==
    CASE r.kind = "neterr" -> "caught"
      [] r.kind = "ok" -> IF op \in ParsesOnOk /\ ~r.parses THEN "caught" ELSE "ok"
      [] r.kind = "notok" -> IF r.parses THEN "notok" ELSE "caught"

\* How a fetch function takes its response.
FetchOutcome(r) == IF r.kind = "ok" /\ r.parses THEN "fetched" ELSE "failed"

FailureAlert(op, r) ==
    IF Outcome(op, r) = "caught"
    THEN <<"Error", "Network error occurred">>
    ELSE IF op = "addMember" /\ r.detail = "User is already a member"
         THEN <<"Already a Member", "This user is already in the ranch">>
         ELSE <<"Error", OrElse(r.detail, Fallback(op))>>

\* The alert of the response.ok branch, shown before the refresh.
SuccessAlerts(op) ==
    CASE op = "vote" -> <<<<"Vote Recorded", "You voted">>>>
      [] op = "execute" -> <<<<"Success!", "Transaction executed successfully!">>>>
      [] op = "withdraw" -> <<<<"Proposal Created!", "Withdrawal proposal submitted">>>>
      [] op = "addMember" -> <<<<"Member Added!", "added">>>>
      [] op = "trade" -> <<<<"Success!", "Trade proposal created">>>>
      [] OTHER -> <<>>

\* The alert shown after the last awaited refresh.
EndAlerts(op) ==
    CASE op = "invest" -> <<<<"Proposal Created!", "investment proposal submitted">>>>
      [] op = "deposit" -> <<<<"Success!", "Deposited">>>>
      [] OTHER -> <<>>

(* ---- tasks ---- *)
Task(op, pc, rest, cid, ctok, arg) ==
    [op |-> op, pc |-> pc, rest |-> rest, cid |-> cid, ctok |-> ctok, arg |-> arg]

RECURSIVE SkipFetches(_, _, _)
SkipFetches(rest, cid, ctok) ==
    IF rest = <<>> \/ CanFetch(Head(rest), cid, ctok)
    THEN rest
    ELSE SkipFetches(Tail(rest), cid, ctok)

\* The task calls the functions of rest in order, up to the first one that
\* reaches its await fetch(); a function that returns early does not suspend.
Resume(t, rest) ==
    LET r == SkipFetches(rest, t.cid, t.ctok) IN
    IF r = <<>>
    THEN [done |-> TRUE, task |-> t, sent |-> <<>>]
    ELSE [done |-> FALSE,
          task |-> [t EXCEPT !.pc = FirstPc(Head(r)), !.rest = Tail(r)],
          sent |-> <<Get(FetchPath(FirstPc(Head(r)), t.cid), t.ctok)>>]

\* fetchGroupData goes on to its second request (line 273).
ResumeUsers(t) ==
    [done |-> FALSE, task |-> [t EXCEPT !.pc = "users"],
     sent |-> <<Get(FetchPath("users", t.cid), t.ctok)>>]

RECURSIVE StartAll(_, _, _, _)
\* The fetch functions fns called without await, each a task of its own.
StartAll(op, fns, cid, ctok) ==
    IF fns = <<>> THEN <<>>
    ELSE <<Resume(Task(op, "start", <<>>, cid, ctok, <<>>), <<Head(fns)>>)>>
         \o StartAll(op, Tail(fns), cid, ctok)

RECURSIVE TasksOf(_)
TasksOf(cs) ==
    IF cs = <<>> THEN EmptyBag
    ELSE (IF Head(cs).done THEN EmptyBag ELSE SetToBag({Head(cs).task}))
         (+) TasksOf(Tail(cs))

RECURSIVE SentOf(_)
SentOf(cs) == IF cs = <<>> THEN <<>> ELSE Head(cs).sent \o SentOf(Tail(cs))

\* useEffect [authToken, id] (lines 143-154) for a render with this id and
\* token: four fetches, none awaited.  The holdings fetch changes no state
\* of the model; only its request is recorded.
EffectFetches(rid, rtok) ==
    StartAll("fetch", <<"fetchGroupData", "fetchProposals", "fetchPersonalBalance">>,
             rid, rtok)

EffectSent(rid, rtok) ==
    SentOf(EffectFetches(rid, rtok)) \o <<Get(FetchPath("holdings", rid), rtok)>>

\* The callback of useFocusEffect (lines 367-373).
FocusFetches(closure) ==
    StartAll("fetch", <<"fetchGroupData", "fetchProposals", "fetchPersonalBalance">>,
             closure.id, closure.authToken)

NoModal ==
    ~(stockModalVisible \/ investModalVisible \/ withdrawModalVisible
      \/ depositModalVisible \/ inviteModalVisible \/ manageMembersModalVisible)

Room(n) == BagCardinality(tasks) + n <= MaxTasks

\* The tasks among the started ones whose request the backend will answer.
Answered(cs) == {b \in SubBag(TasksOf(cs)) : Room(BagCardinality(b))}

NoRanchOut ==
    [act |-> "none", op |-> "none", pc |-> "none", outcome |-> "none",
     body |-> EmptyBody, sent |-> <<>>, alerts |-> <<>>, order |-> <<>>,
     task |-> Task("none", "none", <<>>, NULL, NULL, <<>>)]

Did(act, sent, alerts) ==
    [NoRanchOut EXCEPT !.act = act, !.sent = sent, !.alerts = alerts]

InitRanch ==
    /\ session \in Sessions
    /\ storage \in Storages
    /\ authPc = "reading"
    /\ authToken = NULL
    /\ currentUserId = NULL
    /\ id = "g1"
    /\ focusClosure = [id |-> "g1", authToken |-> NULL]
    /\ ranchBalance = RouteBalance
    /\ investedAmount = 0
    /\ totalAssets = RouteBalance
    /\ personalBalance = MockPersonalBalance
    /\ memberList = RouteMembers
    /\ memberCount = Len(RouteMembers)
    /\ loading = FALSE
    /\ refreshing = FALSE
    /\ proposals = <<>>
    /\ ledger = <<>>
    /\ stockModalVisible = FALSE
    /\ investModalVisible = FALSE
    /\ withdrawModalVisible = FALSE
    /\ depositModalVisible = FALSE
    /\ inviteModalVisible = FALSE
    /\ manageMembersModalVisible = FALSE
    /\ transactionAmount = <<>>
    /\ depositAmount = <<>>
    /\ selectedUserId = ""
    /\ tasks = EmptyBag
    /\ ranchOut = NoRanchOut

(* ---- mount, navigation, refresh ---- *)
\* loadAuth (lines 120-138) completes; when it sets a token, the effect on
\* [authToken, id] runs.
LoadAuth ==
    /\ screen = "ranch"
    /\ authPc = "reading"
    /\ authPc' = "done"
    /\ authToken' = storage.authToken
    /\ currentUserId' = storage.userId
    /\ IF storage.authToken # NULL /\ id # NULL
       THEN /\ proposals' = <<>>
            /\ \E kept \in Answered(EffectFetches(id, storage.authToken)) :
                  tasks' = tasks (+) kept
            /\ ranchOut' = Did("loadAuth", EffectSent(id, storage.authToken), <<>>)
       ELSE /\ ranchOut' = Did("loadAuth", <<>>, <<>>)
            /\ UNCHANGED <<proposals, tasks>>
    /\ UNCHANGED <<storage, id, focusClosure, moneyVars, memberVars, loading, refreshing,
                   ledger, visibleVars, inputVars, voteSent>>
    /\ RanchFrame

\* The user opens another ranch from the Home screen: the route parameter id
\* changes.  The effect on [authToken, id] runs, and useFocusEffect runs its
\* callback, which is rebuilt because id changed.
Navigate(newId) ==
    /\ screen = "ranch"
    /\ session = "navigation"
    /\ NoModal
    /\ newId # id
    /\ id' = newId
    /\ focusClosure' = [id |-> newId, authToken |-> authToken]
    /\ LET effect == IF authToken # NULL THEN EffectFetches(newId, authToken) ELSE <<>>
           esent == IF authToken # NULL THEN EffectSent(newId, authToken) ELSE <<>>
           focus == FocusFetches([id |-> newId, authToken |-> authToken])
       IN /\ \E kept \in Answered(effect \o focus) : tasks' = tasks (+) kept
          /\ ranchOut' = Did("navigate", esent \o SentOf(focus), <<>>)
    /\ proposals' = IF authToken # NULL THEN <<>> ELSE proposals
    /\ UNCHANGED <<authVars, moneyVars, memberVars, loading, refreshing, ledger,
                   visibleVars, inputVars, voteSent>>
    /\ RanchFrame

\* The screen regains focus: useFocusEffect runs the callback it holds.
Focus ==
    /\ screen = "ranch"
    /\ session = "navigation"
    /\ NoModal
    /\ LET focus == FocusFetches(focusClosure) IN
       /\ \E kept \in Answered(focus) : tasks' = tasks (+) kept
       /\ ranchOut' = Did("focus", SentOf(focus), <<>>)
    /\ UNCHANGED <<authVars, id, focusClosure, moneyVars, memberVars, loading, refreshing,
                   listVars, visibleVars, inputVars, voteSent>>
    /\ RanchFrame

\* onRefresh (lines 356-364) up to its await; RefreshControl does not start a
\* refresh while refreshing.  Promise.all resolves when all three fetches have
\* returned: when one of them is never answered, it never does, and the
\* others are fetches like those of the effect.
OnRefresh ==
    /\ screen = "ranch"
    /\ session = "proposals"
    /\ NoModal
    /\ ~refreshing
    /\ LET fns == <<"fetchGroupData", "fetchProposals", "fetchPersonalBalance">>
           all == StartAll("refresh", fns, id, authToken)
           some == StartAll("fetch", fns, id, authToken)
       IN /\ \/ /\ Room(BagCardinality(TasksOf(all)))
                /\ tasks' = tasks (+) TasksOf(all)
             \/ \E kept \in Answered(some) :
                   /\ kept # TasksOf(some)
                   /\ tasks' = tasks (+) kept
          /\ refreshing' = (TasksOf(all) # EmptyBag)
          /\ ranchOut' = Did("onRefresh", SentOf(all), <<>>)
    /\ UNCHANGED <<authVars, id, focusClosure, moneyVars, memberVars, loading,
                   listVars, visibleVars, inputVars, voteSent>>
    /\ RanchFrame

(* ---- handlers up to their first await ---- *)
\* A handler sends its own request and suspends.
Begin(op, arg) ==
    /\ tasks' = tasks (+) SetToBag({Task(op, "mutate", FollowUps(op), id, authToken, arg)})
    /\ ranchOut' = [NoRanchOut EXCEPT !.act = "handler", !.op = op,
                                      !.sent = <<Post(MutatePath(op, id, arg), authToken)>>]

\* A handler returns after an alert, before any request.
Refuse(op, alert) ==
    /\ ranchOut' = [NoRanchOut EXCEPT !.act = "handler", !.op = op, !.alerts = <<alert>>]
    /\ UNCHANGED tasks

\* handleVote (lines 871-885), called by a vote button of row i.
HandleVote(i, vote) ==
    /\ screen = "ranch"
    /\ session = "proposals"
    /\ NoModal
    /\ i \in 1..Len(proposals)
    /\ RanchVoteShown(proposals[i], currentUserId)
    /\ Room(1)
    /\ voteSent[proposals[i].transactionID] < MaxVoteSent
    /\ Begin("vote", <<proposals[i].transactionID, vote>>)
    /\ voteSent' = [voteSent EXCEPT ![proposals[i].transactionID] = @ + 1]
    /\ UNCHANGED <<authVars, id, focusClosure, moneyVars, memberVars, loading, refreshing,
                   listVars, visibleVars, inputVars>>
    /\ RanchFrame

\* handleExecute (lines 902-918), called by the execute button of row i.
HandleExecute(i) ==
    /\ screen = "ranch"
    /\ session = "proposals"
    /\ NoModal
    /\ i \in 1..Len(proposals)
    /\ RanchExecuteShown(proposals[i])
    /\ Room(1)
    /\ IF authToken = NULL
       THEN Refuse("execute", <<"Error", "Not authenticated. Please log in again.">>)
       ELSE Begin("execute", <<proposals[i].transactionID>>)
    /\ UNCHANGED <<authVars, id, focusClosure, moneyVars, memberVars, loading, refreshing,
                   listVars, visibleVars, inputVars, voteSent>>
    /\ RanchFrame

\* The action buttons that only open a modal (lines 385, 527, 700, 1254).
OpenModal(which) ==
    /\ screen = "ranch"
    /\ session = IF which = "manageMembers" THEN "members" ELSE which
    /\ NoModal
    /\ stockModalVisible' = (which = "stock")
    /\ withdrawModalVisible' = (which = "withdraw")
    /\ depositModalVisible' = (which = "deposit")
    /\ manageMembersModalVisible' = (which = "manageMembers")
    /\ ranchOut' = Did("ui", <<>>, <<>>)
    /\ UNCHANGED <<authVars, id, focusClosure, moneyVars, memberVars, loading, refreshing,
                   listVars, investModalVisible, inviteModalVisible, inputVars, tasks,
                   voteSent>>
    /\ RanchFrame

\* onRequestClose / onClose / Close of a modal: only hides it.
CloseModal(which) ==
    /\ screen = "ranch"
    /\ \/ which = "stock" /\ stockModalVisible
       \/ which = "withdraw" /\ withdrawModalVisible
       \/ which = "deposit" /\ depositModalVisible
       \/ which = "invite" /\ inviteModalVisible
       \/ which = "manageMembers" /\ manageMembersModalVisible
    /\ stockModalVisible' = (stockModalVisible /\ which # "stock")
    /\ withdrawModalVisible' = (withdrawModalVisible /\ which # "withdraw")
    /\ depositModalVisible' = (depositModalVisible /\ which # "deposit")
    /\ inviteModalVisible' = (inviteModalVisible /\ which # "invite")
    /\ manageMembersModalVisible' = (manageMembersModalVisible /\ which # "manageMembers")
    /\ ranchOut' = Did("ui", <<>>, <<>>)
    /\ UNCHANGED <<authVars, id, focusClosure, moneyVars, memberVars, loading, refreshing,
                   listVars, investModalVisible, inputVars, tasks, voteSent>>
    /\ RanchFrame

\* The Cancel button of the withdraw, deposit and invite modals: hides the
\* modal and clears its input; disabled while loading.
CancelModal(which) ==
    /\ screen = "ranch"
    /\ ~loading
    /\ \/ which = "withdraw" /\ withdrawModalVisible
       \/ which = "deposit" /\ depositModalVisible
       \/ which = "invite" /\ inviteModalVisible
    /\ withdrawModalVisible' = (withdrawModalVisible /\ which # "withdraw")
    /\ depositModalVisible' = (depositModalVisible /\ which # "deposit")
    /\ inviteModalVisible' = (inviteModalVisible /\ which # "invite")
    /\ transactionAmount' = IF which = "withdraw" THEN <<>> ELSE transactionAmount
    /\ depositAmount' = IF which = "deposit" THEN <<>> ELSE depositAmount
    /\ selectedUserId' = IF which = "invite" THEN "" ELSE selectedUserId
    /\ ranchOut' = Did("ui", <<>>, <<>>)
    /\ UNCHANGED <<authVars, id, focusClosure, moneyVars, memberVars, loading, refreshing,
                   listVars, stockModalVisible, investModalVisible,
                   manageMembersModalVisible, tasks, voteSent>>
    /\ RanchFrame

\* onChangeText of the amount input of the withdraw and the deposit modal.
EditAmount(text) ==
    /\ screen = "ranch"
    /\ \/ /\ withdrawModalVisible
          /\ text # transactionAmount
          /\ transactionAmount' = text
          /\ UNCHANGED depositAmount
       \/ /\ depositModalVisible
          /\ text # depositAmount
          /\ depositAmount' = text
          /\ UNCHANGED transactionAmount
    /\ ranchOut' = Did("ui", <<>>, <<>>)
    /\ UNCHANGED <<authVars, id, focusClosure, moneyVars, memberVars, loading, refreshing,
                   listVars, visibleVars, selectedUserId, tasks, voteSent>>
    /\ RanchFrame

\* A user of the invite list is tapped (line 1309).
SelectUser(user) ==
    /\ screen = "ranch"
    /\ inviteModalVisible
    /\ user # selectedUserId
    /\ selectedUserId' = user
    /\ ranchOut' = Did("ui", <<>>, <<>>)
    /\ UNCHANGED <<authVars, id, focusClosure, moneyVars, memberVars, loading, refreshing,
                   listVars, visibleVars, transactionAmount, depositAmount, tasks, voteSent>>
    /\ RanchFrame

\* handleStockTrade (lines 387-416), called by StockTradingModal.handleTradeSubmit
\* with a selected stock and a valid quantity.
HandleStockTrade ==
    /\ screen = "ranch"
    /\ stockModalVisible
    /\ Room(1)
    /\ IF authToken = NULL
       THEN Refuse("trade", <<"Error", "Not authenticated. Please log in again.">>)
       ELSE Begin("trade", <<>>)
    \* when the handler returns at once, the modal closes itself (modal line 142)
    /\ stockModalVisible' = (authToken # NULL)
    /\ UNCHANGED <<authVars, id, focusClosure, moneyVars, memberVars, loading, refreshing,
                   listVars, investModalVisible, withdrawModalVisible, depositModalVisible,
                   inviteModalVisible, manageMembersModalVisible, inputVars, voteSent>>
    /\ RanchFrame

\* handleInvestSubmit (lines 441-492).  The source never shows the modal that
\* holds its button (investModalVisible is never set to true); the handler is
\* run on the screen as it is, with the amount text left in transactionAmount.
HandleInvestSubmit ==
    /\ screen = "ranch"
    /\ session = "withdraw"
    /\ NoModal
    /\ ~loading
    /\ Room(1)
    /\ LET amt == ParseFloat(transactionAmount) IN
       IF authToken = NULL
       THEN Refuse("invest", <<"Error", "Not authenticated. Please log in again.">>)
            /\ UNCHANGED loading
       ELSE IF id = NULL
       THEN Refuse("invest", <<"Error", "Ranch ID is missing. Please try again.">>)
            /\ UNCHANGED loading
       ELSE IF RanchAmountInvalid(amt)
       THEN Refuse("invest", <<"Invalid Amount", "Please enter a valid positive amount">>)
            /\ UNCHANGED loading
       ELSE IF GtMoney(amt, personalBalance)
       THEN Refuse("invest", <<"Insufficient Funds", "not enough to invest">>)
            /\ UNCHANGED loading
       ELSE Begin("invest", <<>>) /\ loading' = TRUE
    /\ UNCHANGED <<authVars, id, focusClosure, moneyVars, memberVars, refreshing,
                   listVars, visibleVars, inputVars, voteSent>>
    /\ RanchFrame

\* handleWithdrawSubmit (lines 529-555); its button is disabled while loading.
HandleWithdrawSubmit ==
    /\ screen = "ranch"
    /\ withdrawModalVisible
    /\ ~loading
    /\ Room(1)
    /\ LET amt == ParseFloat(transactionAmount) IN
       IF RanchAmountInvalid(amt)
       THEN Refuse("withdraw", <<"Invalid Amount", "Please enter a valid positive amount">>)
            /\ UNCHANGED loading
       ELSE IF GtMoney(amt, ranchBalance)
       THEN Refuse("withdraw", <<"Insufficient Balance", "cannot withdraw">>)
            /\ UNCHANGED loading
       ELSE Begin("withdraw", <<>>) /\ loading' = TRUE
    /\ UNCHANGED <<authVars, id, focusClosure, moneyVars, memberVars, refreshing,
                   listVars, visibleVars, inputVars, voteSent>>
    /\ RanchFrame

\* handleDepositSubmit (lines 702-733); its button is disabled while loading.
HandleDepositSubmit ==
    /\ screen = "ranch"
    /\ depositModalVisible
    /\ ~loading
    /\ Room(1)
    /\ LET amt == ParseFloat(depositAmount) IN
       IF RanchAmountInvalid(amt)
       THEN Refuse("deposit", <<"Invalid Amount", "Please enter a valid positive amount">>)
            /\ UNCHANGED loading
       ELSE IF GtMoney(amt, personalBalance)
       THEN Refuse("deposit", <<"Insufficient Funds", "not enough to deposit">>)
            /\ UNCHANGED loading
       ELSE Begin("deposit", <<>>) /\ loading' = TRUE
    /\ UNCHANGED <<authVars, id, focusClosure, moneyVars, memberVars, refreshing,
                   listVars, visibleVars, inputVars, voteSent>>
    /\ RanchFrame

\* handleInvite (lines 765-771) up to its first await: fetchGroupData, then
\* the request to /users/all.
HandleInvite ==
    /\ screen = "ranch"
    /\ session = "members"
    /\ NoModal
    /\ Room(1)
    /\ loading' = TRUE
    /\ LET c == Resume(Task("invite", "start", <<>>, id, authToken, <<>>),
                       <<"fetchGroupData", "fetchUsers">>)
       IN /\ tasks' = tasks (+) SetToBag({c.task})
          /\ ranchOut' = [NoRanchOut EXCEPT !.act = "handler", !.op = "invite",
                                            !.sent = c.sent]
    /\ UNCHANGED <<authVars, id, focusClosure, moneyVars, memberVars, refreshing,
                   listVars, visibleVars, inputVars, voteSent>>
    /\ RanchFrame

\* handleAddMember (lines 812-831); its button is disabled while loading or
\* while no user is selected.
HandleAddMember ==
    /\ screen = "ranch"
    /\ inviteModalVisible
    /\ ~loading
    /\ selectedUserId # ""
    /\ Room(1)
    /\ Begin("addMember", <<selectedUserId>>)
    /\ loading' = TRUE
    /\ UNCHANGED <<authVars, id, focusClosure, moneyVars, memberVars, refreshing,
                   listVars, visibleVars, inputVars, voteSent>>
    /\ RanchFrame

MembersAfterKickNone(list, member) == list

\* Line 863:  memberList.filter((m) => m !== member)
MembersAfterKick(list, member) == SelectSeq(list, LAMBDA m : m # member)

\* Line 1002:  Math.ceil(memberCount / 2)
VotesNeeded == (memberCount + 1) \div 2

\* handleKickMember (lines 861-864), called by the kick button of a member's
\* row in the members modal (line 1372).
HandleKickMember(member) ==
    /\ screen = "ranch"
    /\ manageMembersModalVisible
    /\ \E i \in 1..Len(memberList) : memberList[i] = member
    /\ memberList' = MembersAfterKick(memberList, member)
    /\ ranchOut' = Did("kick", <<>>, <<<<"Kick Member", member>>>>)
    /\ UNCHANGED <<authVars, id, focusClosure, moneyVars, memberCount, loading, refreshing,
                   listVars, visibleVars, inputVars, tasks, voteSent>>
    /\ RanchFrame

(* ---- responses ---- *)
OrderRequestsFirst(alerts, sent) ==
    [i \in DOMAIN sent |-> "request"] \o [i \in DOMAIN alerts |-> "alert"]

\* A branch calls Alert.alert before it awaits its first refresh (lines
\* 889-890, 924-925): the alerts and requests of a step, in the order made.
OrderAlertsFirst(alerts, sent) ==
    [i \in DOMAIN alerts |-> "alert"] \o [i \in DOMAIN sent |-> "request"]

\* The task t leaves its await and runs to its next await (c.task) or to its
\* end (c.done).  A handler that ends runs its finally block; onRefresh ends
\* when the last of its three fetches has; StockTradingModal closes when
\* handleStockTrade returns without throwing.
\* The alerts of the branch come first, then continuation c, then the last
\* alert of a handler that runs to its end.
Settle(t, r, c, outcome, alerts) ==
    LET left == tasks (-) SetToBag({t})
        completes == c.done /\ outcome \notin {"notok", "caught"}
    IN  /\ tasks' = IF c.done THEN left ELSE left (+) SetToBag({c.task})
        /\ loading' = IF c.done /\ t.op \in LoadingOps THEN FALSE ELSE loading
        /\ refreshing' = IF /\ c.done
                             /\ t.op = "refresh"
                             /\ \A u \in BagToSet(left) : u.op # "refresh"
                          THEN FALSE
                          ELSE refreshing
        /\ stockModalVisible' = IF c.done /\ t.op = "trade" /\ outcome # "caught"
                                 THEN FALSE
                                 ELSE stockModalVisible
        /\ ranchOut' = [act |-> "response", op |-> t.op, pc |-> t.pc,
                        outcome |-> outcome,
                        body |-> IF r.kind = "ok" /\ r.parses THEN r.body ELSE EmptyBody,
                        sent |-> c.sent,
                        alerts |-> alerts \o (IF completes THEN EndAlerts(t.op) ELSE <<>>),
                        order |-> OrderAlertsFirst(alerts, c.sent)
                                    \o (IF completes
                                        THEN [i \in DOMAIN EndAlerts(t.op) |-> "alert"]
                                        ELSE <<>>),
                        task |-> t]

\* fetchGroupData after its first await (lines 262-295).
GroupDataResponds(t, r) ==
    /\ screen = "ranch"
    /\ t.pc = "group"
    /\ IF r.kind = "ok" /\ r.parses
       THEN /\ ranchBalance' = GroupBalanceOf(r.body)
            /\ investedAmount' = GroupInvestedOf(r.body)
            /\ totalAssets' = GroupTotalOf(r.body)
            /\ memberList' = r.body.gMembers
            /\ memberCount' = Len(r.body.gMembers)
            /\ Settle(t, r, ResumeUsers(t), FetchOutcome(r), <<>>)
       ELSE /\ UNCHANGED <<ranchBalance, investedAmount, totalAssets, memberVars>>
            /\ Settle(t, r, Resume(t, t.rest), FetchOutcome(r), <<>>)
    /\ UNCHANGED <<authVars, id, focusClosure, personalBalance, listVars, otherVisible,
                   inputVars, voteSent>>
    /\ RanchFrame

\* fetchGroupData after its second await (lines 276-289): the user names.
UsersResponds(t, r) ==
    /\ screen = "ranch"
    /\ t.pc = "users"
    /\ Settle(t, r, Resume(t, t.rest), FetchOutcome(r), <<>>)
    /\ UNCHANGED <<authVars, id, focusClosure, moneyVars, memberVars, listVars,
                   otherVisible, inputVars, voteSent>>
    /\ RanchFrame

\* fetchProposals after its await (lines 319-352).
ProposalsResponds(t, r) ==
    /\ screen = "ranch"
    /\ t.pc = "proposals"
    /\ IF r.kind = "ok" /\ r.parses
       THEN /\ proposals' = PendingProposals(r.body.transactions, t.cid)
            /\ ledger' = ExecutedTransactions(r.body.transactions, t.cid)
       ELSE UNCHANGED <<proposals, ledger>>
    /\ Settle(t, r, Resume(t, t.rest), FetchOutcome(r), <<>>)
    /\ UNCHANGED <<authVars, id, focusClosure, moneyVars, memberVars, otherVisible,
                   inputVars, voteSent>>
    /\ RanchFrame

\* fetchPersonalBalance after its await (lines 169-178).
PersonalBalanceResponds(t, r) ==
    /\ screen = "ranch"
    /\ t.pc = "me"
    /\ personalBalance' = IF r.kind = "ok" /\ r.parses
                          THEN PersonalBalanceOf(r.body)
                          ELSE personalBalance
    /\ Settle(t, r, Resume(t, t.rest), FetchOutcome(r), <<>>)
    /\ UNCHANGED <<authVars, id, focusClosure, ranchBalance, investedAmount, totalAssets,
                   memberVars, listVars, otherVisible, inputVars, voteSent>>
    /\ RanchFrame

\* handleInvite after its request to /users/all (lines 779-808).
InviteUsersResponds(t, r) ==
    /\ screen = "ranch"
    /\ t.pc = "allUsers"
    /\ LET opened == r.kind = "ok" /\ r.parses
           alerts == IF opened THEN <<>>
                     ELSE IF r.kind = "notok"
                          THEN <<<<"Error", "Failed to load users">>>>
                          ELSE <<<<"Error", "Network error occurred">>>>
       IN /\ inviteModalVisible' = (inviteModalVisible \/ opened)
          /\ Settle(t, r, Resume(t, <<>>), FetchOutcome(r), alerts)
    /\ UNCHANGED <<authVars, id, focusClosure, moneyVars, memberVars, listVars,
                   investModalVisible, withdrawModalVisible,
                   depositModalVisible, manageMembersModalVisible, inputVars, voteSent>>
    /\ RanchFrame

\* A handler after the await of its own request: handleVote 887-898,
\* handleExecute 920-935, handleInvestSubmit 494-524, handleWithdrawSubmit
\* 557-578, handleDepositSubmit 735-761, handleAddMember 833-858,
\* handleStockTrade 418-438.
MutationResponds(t, r) ==
    /\ screen = "ranch"
    /\ t.pc = "mutate"
    /\ LET outcome == Outcome(t.op, r)
           ok == outcome = "ok"
       IN /\ personalBalance' = IF ok /\ t.op = "deposit"
                                THEN BalanceAfterDeposit(personalBalance, r.body)
                                ELSE personalBalance
          /\ transactionAmount' = IF ok /\ t.op \in {"invest", "withdraw"}
                                  THEN <<>> ELSE transactionAmount
          /\ depositAmount' = IF ok /\ t.op = "deposit" THEN <<>> ELSE depositAmount
          /\ selectedUserId' = IF ok /\ t.op = "addMember" THEN "" ELSE selectedUserId
          /\ investModalVisible' = (investModalVisible /\ ~(ok /\ t.op = "invest"))
          /\ withdrawModalVisible' = (withdrawModalVisible /\ ~(ok /\ t.op = "withdraw"))
          /\ depositModalVisible' = (depositModalVisible /\ ~(ok /\ t.op = "deposit"))
          /\ inviteModalVisible' = (inviteModalVisible /\ ~(ok /\ t.op = "addMember"))
          /\ IF ok
             THEN Settle(t, r, Resume(t, FollowUps(t.op)), outcome, SuccessAlerts(t.op))
             ELSE Settle(t, r, Resume(t, FailureFollowUps(t.op)), outcome,
                         <<FailureAlert(t.op, r)>>)
    /\ UNCHANGED <<authVars, id, focusClosure, ranchBalance, investedAmount, totalAssets,
                   memberVars, listVars, manageMembersModalVisible, voteSent>>
    /\ RanchFrame

RanchNext ==
    \/ LoadAuth
    \/ \E newId \in Groups : Navigate(newId)
    \/ Focus
    \/ OnRefresh
    \/ \E i \in 1..Len(proposals) : \E vote \in VoteTypes : HandleVote(i, vote)
    \/ \E i \in 1..Len(proposals) : HandleExecute(i)
    \/ \E which \in {"stock", "withdraw", "deposit", "manageMembers"} : OpenModal(which)
    \/ \E which \in {"stock", "withdraw", "deposit", "invite", "manageMembers"} :
          CloseModal(which)
    \/ \E which \in {"withdraw", "deposit", "invite"} : CancelModal(which)
    \/ \E text \in RanchAmountTexts : EditAmount(text)
    \/ \E user \in InviteCandidates : SelectUser(user)
    \/ HandleStockTrade
    \/ HandleInvestSubmit
    \/ HandleWithdrawSubmit
    \/ HandleDepositSubmit
    \/ HandleInvite
    \/ HandleAddMember
    \/ \E member \in Users : HandleKickMember(member)
    \/ \E t \in BagToSet(tasks) : \E r \in RanchResponses(t) :
          \/ GroupDataResponds(t, r)
          \/ UsersResponds(t, r)
          \/ ProposalsResponds(t, r)
          \/ PersonalBalanceResponds(t, r)
          \/ InviteUsersResponds(t, r)
          \/ MutationResponds(t, r)

(***************************************************************************)
(* Entering and leaving the app: Index (app/index.tsx), LoginScreen        *)
(* (app/login/index.tsx) and AccountScreen.handleLogout                    *)
(* (app/(tabs)/account.tsx).  The three share the device's key-value       *)
(* store.  Every storeData, getData and removeData is awaited, so other    *)
(* steps may run between two of them.  One login handler runs at a time.   *)
(***************************************************************************)
StoreKeys == <<"authToken", "userId", "username">>
Range(seq) == {seq[i] : i \in 1..Len(seq)}

\* A field the JSON body does not carry is undefined; localStorage.setItem
\* stores it as the string "undefined", SecureStore.setItemAsync rejects it.
LoginBodies ==
    [authToken : {"tokA", "", "undefined"}, userId : {"u1", "undefined"},
     username : {"alice"}]

EmptyStore == [authToken |-> NULL, userId |-> NULL, username |-> NULL]

\* fetch() rejects (neterr) or resolves; parses: the body is JSON.
LoginResponses ==
    [kind : {"ok"}, parses : {TRUE}, detail : {"undefined"}, data : LoginBodies]
    \cup [kind : {"ok", "neterr"}, parses : {FALSE}, detail : {"undefined"},
          data : {EmptyStore}]
    \cup [kind : {"notok"}, parses : BOOLEAN, detail : {"undefined", "Bad password"},
          data : {EmptyStore}]

\* The form fields, as the handlers read them.
Forms ==
    [email : {"", "a@b"}, username : {"", "alice"},
     password : {<<>>, <<"a", "b", "c">>, <<"a", "b", "c", "d", "e", "f">>},
     confirmMatches : BOOLEAN]

NoLoginTask == [op |-> "none", pc |-> "idle", data |-> EmptyStore]

NoEntryOut == [step |-> "none", sent |-> <<>>, alerts |-> <<>>, nav |-> "none", read |-> "none"]

\* index.tsx line 22:  !!token
TruthyAlsoEmpty(token) == token # NULL

Truthy(token) == token \notin {NULL, ""}

\* index.tsx lines 32-44: what Index renders.
IndexRenders(auth) ==
    CASE auth = "null" -> "index"
      [] auth = "true" -> "tabs"
      [] auth = "false" -> "login"

\* localStorage does not fail; SecureStore may reject any call, and rejects
\* a value that is not a string.
StorageThrows(fails, value) ==
    platform = "native" /\ (fails \/ value = "undefined")

\* The keys a handler still has to store or remove after key.
NextKeyReversed(key) ==
    CASE key = "username" -> "userId" [] key = "userId" -> "authToken" [] OTHER -> "done"

NextKey(key) ==
    CASE key = "authToken" -> "userId" [] key = "userId" -> "username" [] OTHER -> "done"

\* login/index.tsx lines 51-54 and 99-115: the alert of the first failed
\* validation, or none.
LoginValidation(form) ==
    IF form.email = "" \/ form.password = <<>>
    THEN <<<<"Missing Fields", "Please enter email and password">>>>
    ELSE <<>>

SignupValidation(form) ==
    IF form.email = "" \/ form.password = <<>> \/ form.username = ""
    THEN <<<<"Missing Fields", "Please fill in all fields">>>>
    ELSE IF ~form.confirmMatches
    THEN <<<<"Password Mismatch", "Passwords do not match">>>>
    ELSE IF Len(form.password) < 6
    THEN <<<<"Weak Password", "Password must be at least 6 characters">>>>
    ELSE <<>>

\* The alert of a response that does not lead to storing (lines 82-89 and
\* 151-165).
LoginFailureAlert(op, r) ==
    IF r.kind = "neterr" \/ (r.kind = "ok" /\ ~r.parses)
    THEN <<"Error", "Network error occurred">>
    ELSE IF op = "login"
         THEN IF r.parses
              THEN <<"Login Failed", OrElse(r.detail, "Invalid credentials")>>
              ELSE <<"Error", "Network error occurred">>
         ELSE IF r.parses
              THEN <<"Signup Failed", OrElse(r.detail, "Could not create account")>>
              ELSE <<"Signup Failed", "errorText">>

\* History: lastEntry is "login" / "signup" / "logout" after that handler ran
\* to its end and no write of a login handler and removal of a logout
\* overlapped; "raced" when they did; "partial" while one is under way or
\* after it was cut short.
EntryAfter(first, done, overlaps) ==
    IF overlaps \/ (~first /\ lastEntry = "raced") THEN "raced" ELSE done

InitEntry ==
    /\ platform \in {"web", "native"}
    /\ route = "index"
    /\ store \in {EmptyStore,
                  [authToken |-> "tokB", userId |-> "u2", username |-> "bob"]}
    /\ isAuthenticated = "null"
    /\ loginLoading = FALSE
    /\ loginTask = NoLoginTask
    /\ writeLog = <<>>
    /\ logoutPc = "idle"
    /\ lastEntry = "none"
    /\ entryOut = NoEntryOut

\* The app is closed and started again: the components are gone, the store
\* stays.
AppStart ==
    /\ screen = "entry"
    /\ route # "index"
    /\ route' = "index"
    /\ isAuthenticated' = "null"
    /\ loginLoading' = FALSE
    /\ loginTask' = NoLoginTask
    /\ writeLog' = <<>>
    /\ logoutPc' = "idle"
    /\ entryOut' = [NoEntryOut EXCEPT !.step = "appStart"]
    /\ UNCHANGED <<platform, store, lastEntry>>
    /\ EntryFrame

\* Index.checkAuth after its await (lines 21-26), and the render that follows.
CheckAuth(fails) ==
    /\ screen = "entry"
    /\ route = "index"
    /\ isAuthenticated = "null"
    /\ LET threw == StorageThrows(fails, store.authToken)
           auth == IF ~threw /\ Truthy(store.authToken) THEN "true" ELSE "false"
       IN /\ isAuthenticated' = auth
          /\ route' = IndexRenders(auth)
          /\ entryOut' = [NoEntryOut EXCEPT !.step = "checkAuth",
                                            !.nav = IndexRenders(auth),
                                            !.read = IF threw THEN "threw"
                                                     ELSE store.authToken]
    /\ UNCHANGED <<platform, store, loginLoading, loginTask, writeLog, logoutPc, lastEntry>>
    /\ EntryFrame

\* handleLogin (lines 50-63) and handleSignup (lines 94-128) up to await
\* fetch; the button is disabled while loading.
HandleLoginOrSignup(op, form) ==
    /\ screen = "entry"
    /\ route = "login"
    /\ ~loginLoading
    /\ loginTask.pc = "idle"
    /\ LET alerts == IF op = "login" THEN LoginValidation(form) ELSE SignupValidation(form)
       IN IF alerts # <<>>
          THEN /\ entryOut' = [NoEntryOut EXCEPT !.step = op, !.alerts = alerts]
               /\ UNCHANGED <<loginLoading, loginTask, writeLog>>
          ELSE /\ loginLoading' = TRUE
               /\ loginTask' = [op |-> op, pc |-> "fetch", data |-> EmptyStore]
               /\ writeLog' = <<>>
               /\ entryOut' = [NoEntryOut EXCEPT !.step = op,
                                                 !.sent = <<<<"POST", "/auth/", op>>>>]
    /\ UNCHANGED <<platform, route, store, isAuthenticated, logoutPc, lastEntry>>
    /\ EntryFrame

\* The handler after await fetch (lines 65-67, 82-91; 130-133, 151-169): an
\* ok response with a JSON body starts storeData('authToken', data.token);
\* anything else ends the handler with an alert.
LoginResponds(r) ==
    /\ screen = "entry"
    /\ loginTask.pc = "fetch"
    /\ IF r.kind = "ok" /\ r.parses
       THEN /\ loginTask' = [loginTask EXCEPT !.pc = "authToken", !.data = r.data]
            /\ entryOut' = [NoEntryOut EXCEPT !.step = "response", !.read = "ok"]
            /\ UNCHANGED loginLoading
       ELSE /\ loginTask' = NoLoginTask
            /\ loginLoading' = FALSE
            /\ entryOut' = [NoEntryOut EXCEPT
                              !.step = "response", !.read = r.kind,
                              !.alerts = <<LoginFailureAlert(loginTask.op, r)>>]
    /\ UNCHANGED <<platform, route, store, isAuthenticated, writeLog, logoutPc, lastEntry>>
    /\ EntryFrame

\* The handler after an await storeData (lines 74-80, 138-150): the value is
\* stored and the next storeData starts; after the last one the handler
\* navigates to the tabs.  A storeData that rejects ends the handler in its
\* catch block.
StoreCompletes(fails) ==
    /\ screen = "entry"
    /\ loginTask.pc \in {"authToken", "userId", "username"}
    /\ LET key == loginTask.pc
           value == loginTask.data[key]
           next == NextKey(key)
       IN IF StorageThrows(fails, value)
          THEN /\ loginTask' = NoLoginTask
               /\ loginLoading' = FALSE
               /\ entryOut' = [NoEntryOut EXCEPT
                                 !.step = "store",
                                 !.alerts = <<<<"Error", "Network error occurred">>>>]
               /\ UNCHANGED <<route, store, writeLog, lastEntry>>
          ELSE /\ store' = [store EXCEPT ![key] = value]
               /\ writeLog' = Append(writeLog, key)
               /\ IF next = "done"
                  THEN /\ loginTask' = NoLoginTask
                       /\ loginLoading' = FALSE
                       /\ route' = "tabs"
                       /\ lastEntry' = EntryAfter(FALSE, loginTask.op, logoutPc \in Range(StoreKeys))
                       /\ entryOut' = [NoEntryOut EXCEPT !.step = "store", !.nav = "tabs"]
                  ELSE /\ loginTask' = [loginTask EXCEPT !.pc = next]
                       /\ lastEntry' = EntryAfter(key = "authToken", "partial",
                                               logoutPc \in Range(StoreKeys))
                       /\ entryOut' = [NoEntryOut EXCEPT !.step = "store"]
                       /\ UNCHANGED <<loginLoading, route>>
    /\ UNCHANGED <<platform, isAuthenticated, logoutPc>>
    /\ EntryFrame

\* 'Continue as Guest' (lines 283-286); it is not disabled while loading.
ContinueAsGuest ==
    /\ screen = "entry"
    /\ route = "login"
    /\ route' = "tabs"
    /\ loginLoading' = FALSE
    /\ entryOut' = [NoEntryOut EXCEPT !.step = "guest", !.nav = "tabs"]
    /\ UNCHANGED <<platform, store, isAuthenticated, loginTask, writeLog, logoutPc, lastEntry>>
    /\ EntryFrame

\* handleLogout (account.tsx lines 168-206): asks for confirmation.
HandleLogout ==
    /\ screen = "entry"
    /\ route = "tabs"
    /\ logoutPc = "idle"
    /\ logoutPc' = "confirm"
    /\ entryOut' = [NoEntryOut EXCEPT !.step = "handleLogout"]
    /\ UNCHANGED <<platform, route, store, isAuthenticated, loginLoading, loginTask, writeLog,
                   lastEntry>>
    /\ EntryFrame

\* The answer to the confirmation: 'Logout' starts removeData('authToken').
LogoutChoose(button) ==
    /\ screen = "entry"
    /\ logoutPc = "confirm"
    /\ logoutPc' = IF button = "Logout" THEN "authToken" ELSE "idle"
    /\ lastEntry' = IF button = "Logout"
                    THEN EntryAfter(TRUE, "partial", loginTask.pc \in Range(StoreKeys))
                    ELSE lastEntry
    /\ entryOut' = [NoEntryOut EXCEPT !.step = button]
    /\ UNCHANGED <<platform, route, store, isAuthenticated, loginLoading, loginTask, writeLog>>
    /\ EntryFrame

\* After an await removeData (lines 176-180, 196-200): the key is removed and
\* the next removal starts; after the last one the app goes to /login.  A
\* removeData that rejects ends the handler.
RemoveCompletes(fails) ==
    /\ screen = "entry"
    /\ logoutPc \in {"authToken", "userId", "username"}
    /\ LET next == NextKey(logoutPc) IN
       IF StorageThrows(fails, "")
       THEN /\ logoutPc' = "idle"
            /\ entryOut' = [NoEntryOut EXCEPT !.step = "removeFailed"]
            /\ UNCHANGED <<route, store, loginLoading, lastEntry>>
       ELSE /\ store' = [store EXCEPT ![logoutPc] = NULL]
            /\ IF next = "done"
               THEN /\ logoutPc' = "idle"
                    /\ route' = "login"
                    /\ loginLoading' = FALSE
                    /\ lastEntry' = EntryAfter(FALSE, "logout", loginTask.pc \in Range(StoreKeys))
                    /\ entryOut' = [NoEntryOut EXCEPT !.step = "logoutDone", !.nav = "login"]
               ELSE /\ logoutPc' = next
                    /\ lastEntry' = EntryAfter(FALSE, "partial", loginTask.pc \in Range(StoreKeys))
                    /\ entryOut' = [NoEntryOut EXCEPT !.step = "remove"]
                    /\ UNCHANGED <<route, loginLoading>>
    /\ UNCHANGED <<platform, isAuthenticated, loginTask, writeLog>>
    /\ EntryFrame

EntryNext ==
    \/ AppStart
    \/ \E fails \in BOOLEAN : CheckAuth(fails)
    \/ \E op \in {"login", "signup"} : \E form \in Forms : HandleLoginOrSignup(op, form)
    \/ \E r \in LoginResponses : LoginResponds(r)
    \/ \E fails \in BOOLEAN : StoreCompletes(fails)
    \/ ContinueAsGuest
    \/ HandleLogout
    \/ \E button \in {"Cancel", "Logout"} : LogoutChoose(button)
    \/ \E fails \in BOOLEAN : RemoveCompletes(fails)

(***************************************************************************)
(* HomeScreen (app/(auth)/index.tsx): the ranch list and its banner        *)
(***************************************************************************)
\* The calls of fetchRanches and handleAddNewRanch that may be suspended at
\* the same time: the mount effect and the focus effect both call
\* fetchRanches.
MaxHomeTasks == 2
HomeSlots == 1..MaxHomeTasks
MaxRanches == 3

\* GET /users/me: data.groups, by groupID; a missing groups takes the same
\* branch as the empty list (line 255).
HomeGroupLists == {<<>>, <<"g1">>, <<"g1", "g2">>}

\* GET /transactions?groupId=: data.transactions.
HomeTxnLists ==
    {<<>>,
     <<Tx("t1", "g1", "pending", NoVotes)>>,
     <<Tx("t1", "g1", "pending", [u \in {"u1"} |-> "approve"]),
       Tx("t2", "g1", "pending", [u \in {"u2"} |-> "reject"]),
       Tx("t3", "g1", "approved", NoVotes)>>}

\* A response to fetchPendingApprovals: kind "neterr" is fetch() rejecting,
\* parses tells whether response.json() resolves, hasTxns whether the body
\* has a transactions member.
HomeResp(kind, parses, hasTxns, txns) ==
    [kind |-> kind, parses |-> parses, hasTxns |-> hasTxns, txns |-> txns]

NoHomeResp == HomeResp("none", FALSE, FALSE, <<>>)

ApprovalResponses ==
    {HomeResp("neterr", FALSE, FALSE, <<>>), HomeResp("notok", TRUE, FALSE, <<>>),
     HomeResp("ok", FALSE, FALSE, <<>>), HomeResp("ok", TRUE, FALSE, <<>>)}
    \cup {HomeResp("ok", TRUE, TRUE, l) : l \in HomeTxnLists}

\* The responses to GET /users/me and POST /groups: [kind, parses, groups].
HomeMeResponses ==
    {[kind |-> "neterr", parses |-> FALSE, groups |-> <<>>],
     [kind |-> "notok", parses |-> TRUE, groups |-> <<>>],
     [kind |-> "ok", parses |-> FALSE, groups |-> <<>>]}
    \cup {[kind |-> "ok", parses |-> TRUE, groups |-> g] : g \in HomeGroupLists}

HomeNames == {<<" ">>, <<"R">>}

HomeStores ==
    {EmptyStore,
     [authToken |-> "tokA", userId |-> "u1", username |-> "alice"],
     [authToken |-> "tokA", userId |-> NULL, username |-> "alice"]}

HomeTask(pc, token, userId, groups, counts) ==
    [pc |-> pc, token |-> token, userId |-> userId, groups |-> groups, counts |-> counts]

IdleTask == HomeTask("idle", NULL, NULL, <<>>, <<>>)

NoHomeOut ==
    [step |-> "none", result |-> UNDEF, resp |-> NoHomeResp, threw |-> FALSE,
     sent |-> <<>>, alerts |-> <<>>]

NotVotedByAnyone(tx, userId) == TRUE

\* Line 220:  !tx.votes || !tx.votes[userId]  (a vote is 'approve' or 'reject')
NotVotedBy(tx, userId) == userId \notin DOMAIN tx.votes

\* Lines 214-224 of fetchPendingApprovals: the count of an ok response.
PendingCount(r, userId) ==
    IF ~r.hasTxns
    THEN 0
    ELSE Len(SelectSeq(r.txns, LAMBDA tx : /\ Truthy(userId)
                                           /\ tx.status = "pending"
                                           /\ NotVotedBy(tx, userId)))

\* fetchPendingApprovals (lines 203-230): what the call returns for response
\* r, when reading userId from storage throws or not.
FetchPendingApprovals(r, threw, userId) ==
    CASE r.kind = "neterr" -> 0
      [] r.kind = "notok" -> 0
      [] r.kind = "ok" -> IF threw \/ ~r.parses THEN 0 ELSE PendingCount(r, userId)

\* Lines 431-434:  ranches.reduce((sum, r) => sum + (r.pendingApprovals || 0), 0)
RECURSIVE TotalPendingApprovals(_)
TotalPendingApprovals(rs) ==
    IF rs = <<>>
    THEN 0
    ELSE NumOr(Head(rs).pendingApprovals, 0) + TotalPendingApprovals(Tail(rs))

\* Line 460: the 'Action Required' banner is rendered.
BannerShown == TotalPendingApprovals(ranches) > 0

\* Lines 259-276: the Ranch built for each group once every count is there.
UserRanches(groups, counts) ==
    [i \in DOMAIN groups |-> [id |-> groups[i], pendingApprovals |-> counts[i]]]

ApprovalRequests(groups, token) ==
    [i \in DOMAIN groups |-> Get(<<"/transactions?groupId=", groups[i]>>, token)]

InitHome ==
    /\ ranches = <<>>
    /\ fetchingRanches = TRUE
    /\ homeLoading = FALSE
    /\ homeTasks = [k \in HomeSlots |-> IdleTask]
    /\ homeOut = NoHomeOut

\* fetchRanches (lines 233-235) up to await getData, called by the mount
\* effect (line 322) and by useFocusEffect (line 326).
FetchRanches(k) ==
    /\ screen = "home"
    /\ homeTasks[k].pc = "idle"
    /\ homeTasks' = [homeTasks EXCEPT ![k] = [IdleTask EXCEPT !.pc = "token"]]
    /\ homeOut' = [NoHomeOut EXCEPT !.step = "fetchRanches"]
    /\ UNCHANGED <<ranches, fetchingRanches, homeLoading>>
    /\ HomeFrame

\* fetchRanches after await getData (lines 237-248).
TokenRead(k, fails) ==
    /\ screen = "home"
    /\ homeTasks[k].pc = "token"
    /\ LET threw == StorageThrows(fails, store.authToken)
           goes == ~threw /\ Truthy(store.authToken)
       IN /\ homeTasks' = [homeTasks EXCEPT ![k] =
                              IF goes
                              THEN [IdleTask EXCEPT !.pc = "me", !.token = store.authToken]
                              ELSE IdleTask]
          /\ fetchingRanches' = IF goes THEN fetchingRanches ELSE FALSE
          /\ homeOut' = [NoHomeOut EXCEPT
                            !.step = "token", !.threw = threw,
                            !.sent = IF goes
                                     THEN <<Get(<<"/users/me">>, store.authToken)>>
                                     ELSE <<>>]
    /\ UNCHANGED <<ranches, homeLoading>>
    /\ HomeFrame

\* fetchRanches after await fetch (lines 250-318): with groups, every
\* fetchPendingApprovals call is started before any is awaited.
MeResponds(k, r) ==
    /\ screen = "home"
    /\ homeTasks[k].pc = "me"
    /\ LET t == homeTasks[k]
           loaded == r.kind = "ok" /\ r.parses
           maps == loaded /\ r.groups # <<>>
       IN /\ homeTasks' = [homeTasks EXCEPT ![k] =
                              IF maps
                              THEN [t EXCEPT !.pc = "approvals", !.groups = r.groups,
                                             !.counts = [i \in DOMAIN r.groups |-> UNDEF]]
                              ELSE IdleTask]
          /\ ranches' = IF loaded /\ ~maps THEN <<>> ELSE ranches
          /\ fetchingRanches' = IF maps THEN fetchingRanches ELSE FALSE
          /\ homeOut' = [NoHomeOut EXCEPT
                            !.step = "me",
                            !.sent = IF maps THEN ApprovalRequests(r.groups, t.token)
                                     ELSE <<>>]
    /\ UNCHANGED homeLoading
    /\ HomeFrame

\* fetchPendingApprovals for group i of the call in slot k, after its await
\* fetch (lines 213-229); when it is the last, Promise.all resolves and
\* fetchRanches goes on (lines 279-280, 315-317).
ApprovalsResponds(k, i, r, fails) ==
    /\ screen = "home"
    /\ homeTasks[k].pc = "approvals"
    /\ i \in DOMAIN homeTasks[k].counts
    /\ homeTasks[k].counts[i] = UNDEF
    /\ LET t == homeTasks[k]
           threw == r.kind = "ok" /\ StorageThrows(fails, store.userId)
           result == FetchPendingApprovals(r, threw, store.userId)
           counts == [t.counts EXCEPT ![i] = result]
           last == \A j \in DOMAIN counts : counts[j] # UNDEF
       IN /\ homeTasks' = [homeTasks EXCEPT ![k] =
                              IF last THEN IdleTask ELSE [t EXCEPT !.counts = counts]]
          /\ ranches' = IF last THEN UserRanches(t.groups, counts) ELSE ranches
          /\ fetchingRanches' = IF last THEN FALSE ELSE fetchingRanches
          /\ homeOut' = [NoHomeOut EXCEPT !.step = IF last THEN "loaded" ELSE "count",
                                          !.result = result, !.resp = r, !.threw = threw]
    /\ UNCHANGED homeLoading
    /\ HomeFrame

\* handleAddNewRanch (lines 343-351) up to await getData; the create button
\* is not offered while loading.
HandleAddNewRanch(k, name) ==
    /\ screen = "home"
    /\ homeTasks[k].pc = "idle"
    /\ ~homeLoading
    /\ IF Trim(name) = <<>>
       THEN /\ homeOut' = [NoHomeOut EXCEPT
                              !.step = "addRanch",
                              !.alerts = <<<<"Error", "Please enter a name for your ranch.">>>>]
            /\ UNCHANGED <<homeTasks, homeLoading>>
       ELSE /\ homeTasks' = [homeTasks EXCEPT ![k] = [IdleTask EXCEPT !.pc = "createRead"]]
            /\ homeLoading' = TRUE
            /\ homeOut' = [NoHomeOut EXCEPT !.step = "addRanch"]
    /\ UNCHANGED <<ranches, fetchingRanches>>
    /\ HomeFrame

\* handleAddNewRanch after its two getData calls (lines 352-372).
CreateRead(k, fails) ==
    /\ screen = "home"
    /\ homeTasks[k].pc = "createRead"
    /\ LET threw == StorageThrows(fails, store.authToken)
           logged == Truthy(store.authToken) /\ Truthy(store.userId)
           goes == ~threw /\ logged
       IN /\ homeTasks' = [homeTasks EXCEPT ![k] =
                              IF goes
                              THEN [IdleTask EXCEPT !.pc = "create",
                                                    !.token = store.authToken,
                                                    !.userId = store.userId]
                              ELSE IdleTask]
          /\ homeLoading' = goes
          /\ homeOut' = [NoHomeOut EXCEPT
                            !.step = "createRead", !.threw = threw,
                            !.sent = IF goes
                                     THEN <<Post(<<"/groups">>, store.authToken)>>
                                     ELSE <<>>,
                            !.alerts = IF threw
                                       THEN <<<<"Error", "Network error occurred">>>>
                                       ELSE IF ~logged
                                       THEN <<<<"Error",
                                                "You must be logged in to create a ranch">>>>
                                       ELSE <<>>]
    /\ UNCHANGED <<ranches, fetchingRanches>>
    /\ HomeFrame

\* handleAddNewRanch after await fetch (lines 374-400): the ranch created is
\* put first, with no pending approvals.
CreateResponds(k, r) ==
    /\ screen = "home"
    /\ homeTasks[k].pc = "create"
    /\ Len(ranches) < MaxRanches
    /\ LET created == r.kind = "ok" /\ r.parses IN
       /\ ranches' = IF created
                     THEN <<[id |-> "g3", pendingApprovals |-> 0]>> \o ranches
                     ELSE ranches
       /\ homeOut' = [NoHomeOut EXCEPT
                         !.step = "create",
                         !.alerts = IF created
                                    THEN <<<<"Success!", "created">>>>
                                    ELSE IF r.kind = "notok"
                                    THEN <<<<"Error",
                                             "Failed to create ranch. Please try again.">>>>
                                    ELSE <<<<"Error", "Network error occurred">>>>]
    /\ homeTasks' = [homeTasks EXCEPT ![k] = IdleTask]
    /\ homeLoading' = FALSE
    /\ UNCHANGED fetchingRanches
    /\ HomeFrame

HomeNext ==
    \/ \E k \in HomeSlots : FetchRanches(k)
    \/ \E k \in HomeSlots : \E fails \in BOOLEAN : TokenRead(k, fails)
    \/ \E k \in HomeSlots : \E r \in HomeMeResponses : MeResponds(k, r)
    \/ \E k \in HomeSlots : \E i \in 1..2 : \E r \in ApprovalResponses :
          \E fails \in BOOLEAN : ApprovalsResponds(k, i, r, fails)
    \/ \E k \in HomeSlots : \E name \in HomeNames : HandleAddNewRanch(k, name)
    \/ \E k \in HomeSlots : \E fails \in BOOLEAN : CreateRead(k, fails)
    \/ \E k \in HomeSlots : \E r \in HomeMeResponses : CreateResponds(k, r)

(***************************************************************************)
(* Specifications                                                          *)
(***************************************************************************)
\* Index, LoginScreen and AccountScreen are not mounted.
NoEntry == InitEntry /\ platform = "web" /\ store = EmptyStore

\* The ranch screen is not mounted.
NoRanch ==
    /\ InitRanch
    /\ session = "proposals"
    /\ storage = [authToken |-> NULL, userId |-> NULL]

InitApiClient ==
    /\ screen = "api"
    /\ voteSent = NoVoteSent
    /\ InitApi /\ InitModal /\ groupBalance = 0 /\ NoCard /\ NoRanch /\ NoEntry /\ InitHome
SpecApi == InitApiClient /\ [][ApiNext]_vars

InitModalScreen ==
    /\ screen = "modal"
    /\ voteSent = NoVoteSent
    /\ InitApi /\ InitModal /\ NoCard /\ NoRanch /\ NoEntry /\ InitHome
SpecModal == InitModalScreen /\ [][ModalNext]_vars

InitCardScreen ==
    /\ screen = "card"
    /\ voteSent = NoVoteSent
    /\ InitApi /\ InitModal /\ groupBalance = 0 /\ InitCard /\ NoRanch /\ NoEntry /\ InitHome
SpecCard == InitCardScreen /\ [][CardNext]_vars

InitRanchScreen ==
    /\ screen = "ranch"
    /\ voteSent = NoVoteSent
    /\ InitApi /\ InitModal /\ groupBalance = 0 /\ NoCard /\ InitRanch /\ NoEntry /\ InitHome
SpecRanch == InitRanchScreen /\ [][RanchNext]_vars

InitEntryFlow ==
    /\ screen = "entry"
    /\ voteSent = NoVoteSent
    /\ InitApi /\ InitModal /\ groupBalance = 0 /\ NoCard /\ NoRanch /\ InitEntry /\ InitHome
SpecEntry == InitEntryFlow /\ [][EntryNext]_vars

\* HomeScreen is mounted, on either platform, logged in or not.
InitHomeScreen ==
    /\ screen = "home"
    /\ voteSent = NoVoteSent
    /\ InitApi /\ InitModal /\ groupBalance = 0 /\ NoCard /\ NoRanch
    /\ platform \in {"web", "native"}
    /\ store \in HomeStores
    /\ route = "tabs"
    /\ isAuthenticated = "null"
    /\ loginLoading = FALSE
    /\ loginTask = NoLoginTask
    /\ writeLog = <<>>
    /\ logoutPc = "idle"
    /\ lastEntry = "none"
    /\ entryOut = NoEntryOut
    /\ InitHome
SpecHome == InitHomeScreen /\ [][HomeNext]_vars

\* The application renders a card or the ranch screen.
Init ==
    /\ voteSent = NoVoteSent
    /\ InitApi /\ InitModal /\ groupBalance = 0 /\ NoEntry /\ InitHome
    /\ \/ screen = "card" /\ InitCard /\ NoRanch
       \/ screen = "ranch" /\ NoCard /\ InitRanch
Next == CardNext \/ RanchNext
Spec == Init /\ [][Next]_vars

(***************************************************************************)
(* Claims about the transaction API client                                 *)
(***************************************************************************)

\* C5: on a response that is not ok every function throws an Error whose
\* message is the server's detail when present and the function's default
\* message otherwise, and returns nothing; on an ok response it returns the
\* parsed body (the transactions / transaction field for the three GET
\* functions) and does not throw.
C5_ErrorContract ==
    apiPc = "done" =>
        IF apiResp.ok
        THEN /\ apiResult.kind = "return"
             /\ apiCall.fn \in {"getGroupTransactions", "getTransactionHistory"}
                    => apiResult.value = apiResp.json.transactions
             /\ apiCall.fn = "getTransaction"
                    => apiResult.value = apiResp.json.transaction
             /\ apiCall.fn \in PostFns => apiResult.value = apiResp.json
        ELSE /\ apiResult.kind = "throw"
             /\ apiResult.error = "Error"
             /\ apiResult.message =
                   IF apiResp.json.detail \in {"undefined", ""}
                   THEN DefaultMessage(apiCall.fn)
                   ELSE apiResp.json.detail

\* C6: every call hands fetch() exactly one request, with the method and path
\* of its endpoint and the header Authorization: Bearer <token> built from the
\* token argument of that call; no outcome of the call adds a second request.
C6_OneAuthorizedRequest ==
    apiPc # "idle" =>
        /\ Len(apiSent) = 1
        /\ apiSent[1].auth = <<"Bearer ", apiCall.token>>
        /\ apiSent[1].method =
              (IF apiCall.fn \in {"createTransaction", "voteOnTransaction",
                                  "executeTransaction"} THEN "POST" ELSE "GET")
        /\ apiCall.fn = "getGroupTransactions"
              => apiSent[1].path = <<"/transactions?groupId=", apiCall.arg>>
        /\ apiCall.fn = "getTransactionHistory"
              => apiSent[1].path = <<"/transactions/history/me">>
        /\ apiCall.fn = "getTransaction"
              => apiSent[1].path = <<"/transactions/", apiCall.arg>>
        /\ apiCall.fn = "createTransaction"
              => apiSent[1].path = <<"/transactions">>
        /\ apiCall.fn = "voteOnTransaction"
              => apiSent[1].path = <<"/transactions/", apiCall.arg, "/vote">>
        /\ apiCall.fn = "executeTransaction"
              => apiSent[1].path = <<"/transactions/", apiCall.arg, "/execute">>

\* A call of executeTransaction with tokB ended by throwing after a non-ok
\* response, and one request was sent.
C6_Witness ==
    /\ apiPc = "done"
    /\ apiCall.fn = "executeTransaction"
    /\ apiCall.token = "tokB"
    /\ ~apiResp.ok
    /\ apiResult.kind = "throw"
    /\ Len(apiSent) = 1

(***************************************************************************)
(* Claims about CreateTransactionModal                                     *)
(***************************************************************************)

\* The proposal in the form is valid: the description is not blank after
\* trimming and the amount text parses to a number greater than 0.
ProposalValid ==
    /\ \E i \in 1..Len(description) : description[i] # " "
    /\ LET x == ParseFloat(amount) IN ~x.nan /\ x.num > 0

\* C10: handleSubmit calls onSubmit only for a valid proposal; for an invalid
\* one it shows one error alert, calls neither onSubmit nor onClose, and
\* leaves description, amount and isSubmitting unchanged.
C10_SubmitValidates ==
    [][modalOut'.step = "handleSubmit" =>
          /\ modalOut'.onSubmit # <<>> => ProposalValid
          /\ ~ProposalValid =>
                /\ Len(modalOut'.alerts) = 1
                /\ modalOut'.alerts[1][1] = "Error"
                /\ modalOut'.onSubmit = <<>>
                /\ modalOut'.onClose = 0
                /\ UNCHANGED <<description, amount, isSubmitting>>]_vars

\* handleSubmit has just refused an amount that parses to 0 under a
\* description that is not blank.
C10_Witness ==
    /\ modalOut.step = "handleSubmit"
    /\ modalOut.onSubmit = <<>>
    /\ modalOut.alerts = <<<<"Error", "Please enter a valid amount greater than 0">>>>
    /\ description = <<" ", "a">>
    /\ amount = <<"0", ".", "0">>
    /\ ~isSubmitting


(***************************************************************************)
(* Claims about the vote and execute controls                              *)
(***************************************************************************)

\* C1: in TransactionCard, in ProposalCard and in the proposal rows of
\* RanchScreen the approve/reject controls are offered only when the
\* displayed status is 'pending' and the current user has no entry in the
\* votes map.
C1_VoteOfferedOnlyPendingUnvoted ==
    /\ (screen = "card" /\ cardKind = "TransactionCard"
            /\ CardVoteShown(cardTxn, cardUser, cardProps.onVote))
          => (cardTxn.status = "pending" /\ cardUser \notin DOMAIN cardTxn.votes)
    /\ (screen = "card" /\ cardKind = "ProposalCard"
            /\ ProposalVoteShown(cardTxn, cardUser))
          => (cardTxn.status = "pending" /\ cardUser \notin DOMAIN cardTxn.votes)
    /\ screen = "ranch" =>
          \A i \in 1..Len(proposals) :
             RanchVoteShown(proposals[i], currentUserId)
                => /\ proposals[i].status = "pending"
                   /\ currentUserId \notin DOMAIN proposals[i].votes

\* RanchScreen has just received a list with a pending proposal the current
\* user u1 has not voted on, and offers the vote controls on its row.
C1_Witness ==
    /\ screen = "ranch"
    /\ ranchOut.act = "response"
    /\ ranchOut.pc = "proposals"
    /\ currentUserId = "u1"
    /\ Len(proposals) = 1
    /\ proposals[1].status = "pending"
    /\ RanchVoteShown(proposals[1], currentUserId)

\* The path of POST /transactions/{id}/execute and of POST /transactions/{id}/vote.
IsExecutePath(p) == Len(p) = 3 /\ p[1] = "/transactions/" /\ p[3] = "/execute"
IsVotePath(p) == Len(p) = 3 /\ p[1] = "/transactions/" /\ p[3] = "/vote"

\* The Execute control is offered only for a transaction displayed as approved.
ExecuteOfferedOnlyApproved ==
    /\ (screen = "card" /\ cardKind = "TransactionCard"
            /\ CardExecuteShown(cardTxn, cardProps.onExecute))
          => cardTxn.status = "approved"
    /\ (screen = "card" /\ cardKind = "ProposalCard" /\ ProposalExecuteShown(cardTxn))
          => cardTxn.status = "approved"
    /\ screen = "ranch" =>
          \A i \in 1..Len(proposals) :
             RanchExecuteShown(proposals[i]) => proposals[i].status = "approved"

\* A step of RanchScreen sends an execute request only from handleExecute,
\* for a row that is displayed as approved when it is sent.
RanchExecuteSentForApprovedRow ==
    \A k \in 1..Len(ranchOut'.sent) :
       IsExecutePath(ranchOut'.sent[k].path) =>
          /\ ranchOut'.act = "handler"
          /\ ranchOut'.op = "execute"
          /\ Len(ranchOut'.sent) = 1
          /\ ranchOut'.sent[k].method = "POST"
          /\ \E i \in 1..Len(proposals) :
                /\ proposals[i].transactionID = ranchOut'.sent[k].path[2]
                /\ proposals[i].status = "approved"

\* C2 as stated: the Execute control is offered only for a transaction
\* displayed as approved, and every call of onExecute and every POST
\* /transactions/{id}/execute is made for a transaction that is displayed as
\* approved when it is made.
C2_ExecuteOnlyDisplayedApproved ==
    /\ []ExecuteOfferedOnlyApproved
    /\ [][/\ (screen = "card" /\ cardOut'.onExecute # <<>>)
                => /\ cardOut'.onExecute = <<cardTxn.transactionID>>
                   /\ cardTxn.status = "approved"
          /\ screen = "ranch" => RanchExecuteSentForApprovedRow]_vars

\* C2 as the code has it: the Execute control is offered only for a
\* transaction displayed as approved; ProposalCard and RanchScreen execute
\* from a tap on a row that is displayed as approved; TransactionCard opens
\* its confirmation dialog only for a transaction displayed as approved and
\* calls onExecute, on 'Execute', for the transaction the dialog was opened
\* for, whatever is displayed by then.
C2_ExecuteFromApprovedControl ==
    /\ []ExecuteOfferedOnlyApproved
    /\ [][/\ (screen = "card" /\ cardKind = "ProposalCard" /\ cardOut'.onExecute # <<>>)
                => /\ cardOut'.onExecute = <<cardTxn.transactionID>>
                   /\ cardTxn.status = "approved"
          /\ (screen = "card" /\ dialog = NULL /\ dialog' # NULL)
                => /\ cardOut'.step = "handleExecute"
                   /\ dialog' = cardTxn.transactionID
                   /\ cardTxn.status = "approved"
          /\ (screen = "card" /\ cardKind = "TransactionCard" /\ cardOut'.onExecute # <<>>)
                => /\ cardOut'.step = "Execute"
                   /\ dialog # NULL
                   /\ cardOut'.onExecute = <<dialog>>
          /\ screen = "ranch" => RanchExecuteSentForApprovedRow]_vars

\* 'Execute' was chosen in the dialog of TransactionCard and onExecute was
\* called for t1, which the card displays as executed by now.
C2_Witness ==
    /\ screen = "card"
    /\ cardKind = "TransactionCard"
    /\ cardOut.step = "Execute"
    /\ cardOut.onExecute = <<"t1">>
    /\ cardTxn.status = "executed"

\* C3 as stated: through TransactionCard.handleVote and through
\* RanchScreen.handleVote the client issues at most one vote request per
\* transaction on behalf of the current user.
C3_AtMostOneVoteRequest ==
    (screen = "ranch" \/ cardKind = "TransactionCard")
       => \A t \in TxnIds : voteSent[t] <= 1

\* C3 as the code has it: a tap issues one vote request (one call of onVote),
\* and only while the transaction is displayed as pending without an entry of
\* the current user; TransactionCard issues none while a call of onVote is
\* unsettled.  The request is repeated when the control is tapped again
\* before the display has changed.
C3_VoteFromOfferedControl ==
    [][/\ \A t \in TxnIds : voteSent'[t] \in {voteSent[t], voteSent[t] + 1}
       /\ (screen = "card" /\ cardOut'.onVote # <<>>)
             => /\ Len(cardOut'.onVote) = 1
                /\ cardOut'.onVote[1][1] = cardTxn.transactionID
                /\ cardTxn.status = "pending"
                /\ cardUser \notin DOMAIN cardTxn.votes
                /\ cardKind = "TransactionCard" => (~isVoting /\ isVoting')
                /\ voteSent'[cardTxn.transactionID] = voteSent[cardTxn.transactionID] + 1
       /\ screen = "ranch" =>
             \A k \in 1..Len(ranchOut'.sent) :
                IsVotePath(ranchOut'.sent[k].path) =>
                   /\ ranchOut'.act = "handler"
                   /\ ranchOut'.op = "vote"
                   /\ Len(ranchOut'.sent) = 1
                   /\ ranchOut'.sent[k].method = "POST"
                   /\ \E i \in 1..Len(proposals) :
                         /\ proposals[i].transactionID = ranchOut'.sent[k].path[2]
                         /\ proposals[i].status = "pending"
                         /\ currentUserId \notin DOMAIN proposals[i].votes
                         /\ voteSent'[proposals[i].transactionID]
                               = voteSent[proposals[i].transactionID] + 1]_vars

\* RanchScreen.handleVote has just sent the second vote request for t1.
C3_Witness ==
    /\ screen = "ranch"
    /\ ranchOut.act = "handler"
    /\ ranchOut.op = "vote"
    /\ voteSent["t1"] = 2

\* C4: TransactionCard calls onExecute only when 'Execute' is chosen in the
\* dialog, and the dialog is opened only by handleExecute; choosing 'Cancel'
\* calls neither onExecute nor onRefresh and leaves isExecuting false.
C4_ConfirmBeforeExecute ==
    [][/\ (cardKind = "TransactionCard" /\ cardOut'.onExecute # <<>>)
             => /\ cardOut'.step = "Execute"
                /\ dialog # NULL
                /\ cardOut'.onExecute = <<dialog>>
       /\ (dialog = NULL /\ dialog' # NULL) => cardOut'.step = "handleExecute"
       /\ (dialog # NULL /\ cardOut'.step = "Cancel")
             => /\ cardOut'.onExecute = <<>>
                /\ cardOut'.onRefresh = 0
                /\ ~isExecuting
                /\ ~isExecuting'
                /\ dialog' = NULL]_vars

\* 'Cancel' was chosen in the dialog: nothing was called and nothing is
\* executing.
C4_Witness ==
    /\ cardKind = "TransactionCard"
    /\ cardOut.step = "Cancel"
    /\ cardOut.onExecute = <<>>
    /\ cardOut.onRefresh = 0
    /\ ~isExecuting
    /\ dialog = NULL

(***************************************************************************)
(* Claims about RanchScreen                                                *)
(***************************************************************************)

\* The texts of the alerts of the failure branches: the server's detail, the
\* fallback of the handler, or a fixed text.
FailureTexts ==
    (RanchDetails \ {"undefined"})
    \cup {Fallback(op) : op \in MutateOps}
    \cup {"Network error occurred", "This user is already in the ranch"}

\* C7: when the request of a mutating handler of RanchScreen gets a non-ok
\* response or fails, the handler shows one alert with the server's detail or
\* a fixed text, sends no request (no retry, no refresh), ends, and leaves
\* proposals, ledger, ranchBalance, investedAmount, totalAssets,
\* personalBalance and memberList unchanged.
C7_FailureOnlyAlerts ==
    [][(/\ ranchOut'.act = "response"
        /\ ranchOut'.pc = "mutate"
        /\ ranchOut'.outcome \in {"notok", "caught"})
          => /\ ranchOut'.op \in MutateOps
             /\ ranchOut'.sent = <<>>
             /\ Len(ranchOut'.alerts) = 1
             /\ ranchOut'.alerts[1][2] \in FailureTexts
             /\ BagCardinality(tasks') = BagCardinality(tasks) - 1
             /\ UNCHANGED <<proposals, ledger, ranchBalance, investedAmount, totalAssets,
                            personalBalance, memberList>>]_vars

\* The deposit request got a non-ok response without detail: the fallback
\* was shown, the modal is still open with its amount and loading is over.
C7_Witness ==
    /\ ranchOut.act = "response"
    /\ ranchOut.op = "deposit"
    /\ ranchOut.pc = "mutate"
    /\ ranchOut.outcome = "notok"
    /\ ranchOut.alerts = <<<<"Error", "Failed to deposit">>>>
    /\ depositModalVisible
    /\ depositAmount = <<"5">>
    /\ ~loading
    /\ tasks = EmptyBag

\* C8: ranchBalance, investedAmount and totalAssets start from the route
\* parameter (investedAmount from 0) and change only when a GET /groups/{id}
\* succeeds, to the values of its body; personalBalance changes only when a
\* GET /users/me succeeds, to the balance of its body, or when a deposit
\* succeeds, to the userBalance of its body; no handler changes any of them.
C8_BalancesFromBackend ==
    /\ (ranchBalance = RouteBalance /\ totalAssets = RouteBalance /\ investedAmount = 0)
    /\ [][/\ <<ranchBalance, investedAmount, totalAssets>>'
                 # <<ranchBalance, investedAmount, totalAssets>>
              => /\ ranchOut'.act = "response"
                 /\ ranchOut'.pc = "group"
                 /\ ranchOut'.outcome = "fetched"
          /\ (ranchOut'.act = "response" /\ ranchOut'.pc = "group"
                 /\ ranchOut'.outcome = "fetched")
              => LET g == ranchOut'.body IN
                 /\ ranchBalance' = RoundCents(IF g.gBalance \notin {UNDEF, 0} THEN g.gBalance
                                               ELSE IF g.balance \notin {UNDEF, 0}
                                                    THEN g.balance ELSE 0)
                 /\ investedAmount' = RoundCents(IF g.gInvested \notin {UNDEF, 0}
                                                 THEN g.gInvested ELSE 0)
                 /\ totalAssets' = RoundCents(IF g.gTotal \notin {UNDEF, 0} THEN g.gTotal
                                              ELSE IF g.gBalance \notin {UNDEF, 0}
                                                   THEN g.gBalance ELSE 0)
          /\ personalBalance' # personalBalance
              => /\ ranchOut'.act = "response"
                 /\ \/ ranchOut'.pc = "me" /\ ranchOut'.outcome = "fetched"
                    \/ /\ ranchOut'.pc = "mutate"
                       /\ ranchOut'.op = "deposit"
                       /\ ranchOut'.outcome = "ok"
                       /\ personalBalance' = ranchOut'.body.userBalance
          /\ (ranchOut'.act = "response" /\ ranchOut'.pc = "me"
                 /\ ranchOut'.outcome = "fetched")
              => personalBalance' = (IF ranchOut'.body.balance \in {UNDEF, 0}
                                     THEN 0 ELSE ranchOut'.body.balance)
          /\ ranchOut'.act # "response" => UNCHANGED moneyVars]_vars

\* The deposit succeeded and personalBalance is the userBalance of its
\* response.
C8_Witness ==
    /\ ranchOut.act = "response"
    /\ ranchOut.op = "deposit"
    /\ ranchOut.pc = "mutate"
    /\ ranchOut.outcome = "ok"
    /\ ranchOut.body.userBalance = 3000
    /\ personalBalance = 3000

\* C9: the proposals shown change only when a GET /transactions?groupId=
\* succeeds, and then each of them is a transaction of that response with its
\* status and votes, or when switching ranches clears the list; handleVote and
\* handleExecute, before and after their request, leave them as they are.
C9_ProposalsFromServer ==
    [][/\ proposals' # proposals
           => \/ ranchOut'.act \in {"loadAuth", "navigate"} /\ proposals' = <<>>
              \/ /\ ranchOut'.act = "response"
                 /\ ranchOut'.pc = "proposals"
                 /\ ranchOut'.outcome = "fetched"
       /\ (ranchOut'.act = "response" /\ ranchOut'.pc = "proposals"
              /\ ranchOut'.outcome = "fetched")
           => \A i \in 1..Len(proposals') :
                 \E j \in 1..Len(ranchOut'.body.transactions) :
                    proposals'[i] = ranchOut'.body.transactions[j]
       /\ (ranchOut'.op \in {"vote", "execute"}
              /\ (ranchOut'.act = "handler" \/ ranchOut'.pc = "mutate"))
           => UNCHANGED <<proposals, ledger>>]_vars

\* The vote of u1 on t1 was accepted by the server, and the row of t1 still
\* shows it as pending without a vote of u1.
C9_Witness ==
    /\ ranchOut.act = "response"
    /\ ranchOut.op = "vote"
    /\ ranchOut.pc = "mutate"
    /\ ranchOut.outcome = "ok"
    /\ currentUserId = "u1"
    /\ Len(proposals) = 1
    /\ proposals[1].transactionID = "t1"
    /\ proposals[1].status = "pending"
    /\ "u1" \notin DOMAIN proposals[1].votes

(***************************************************************************)
(* Further claims about CreateTransactionModal                             *)
(***************************************************************************)

\* C11: for a valid proposal whose amount is greater than groupBalance,
\* handleSubmit shows the warning and still calls onSubmit with the
\* description and that amount; for a valid proposal within the balance it
\* calls onSubmit without an alert.
C11_WarnsButSubmits ==
    [][(modalOut'.step = "handleSubmit" /\ ProposalValid) =>
          LET x == ParseFloat(amount)
              exceeds == x.num > groupBalance * Pow10(x.scale)
          IN /\ modalOut'.onSubmit = <<[description |-> description, amount |-> x]>>
             /\ isSubmitting'
             /\ exceeds => /\ Len(modalOut'.alerts) = 1
                           /\ modalOut'.alerts[1][1] = "Warning"
             /\ ~exceeds => modalOut'.alerts = <<>>]_vars

\* handleSubmit has just warned that 55 exceeds the group balance of 5 and
\* called onSubmit with 55.
C11_Witness ==
    /\ modalOut.step = "handleSubmit"
    /\ groupBalance = 5
    /\ amount = <<"5", "5">>
    /\ Len(modalOut.alerts) = 1
    /\ modalOut.alerts[1][1] = "Warning"
    /\ Len(modalOut.onSubmit) = 1
    /\ modalOut.onSubmit[1].amount = ParseFloat(<<"5", "5">>)
    /\ isSubmitting

(***************************************************************************)
(* Claims about entering and leaving the app                               *)
(***************************************************************************)

\* C12: handleLogin and handleSignup write to the store only after an ok
\* response, in the order authToken, userId, username, and navigate to the
\* tabs only in the step that completes the third write; a non-ok response
\* or a network error ends the handler with one alert, writes nothing and
\* does not navigate; a tap itself writes nothing and does not navigate.
C12_StoreThenNavigate ==
    [][/\ writeLog' \in {SubSeq(StoreKeys, 1, n) : n \in 0..3}
       /\ (writeLog' # writeLog /\ writeLog' # <<>>)
             => /\ entryOut'.step = "store"
                /\ loginTask.pc = writeLog'[Len(writeLog')]
                /\ store' = [store EXCEPT ![loginTask.pc] = loginTask.data[loginTask.pc]]
       /\ (entryOut'.step \in {"login", "signup", "response", "store"}
              /\ entryOut'.nav # "none")
             => /\ entryOut'.step = "store"
                /\ entryOut'.nav = "tabs"
                /\ route' = "tabs"
                /\ writeLog' = StoreKeys
       /\ (entryOut'.step = "response" /\ entryOut'.read \in {"notok", "neterr"})
             => /\ UNCHANGED <<store, route, writeLog>>
                /\ writeLog = <<>>
                /\ entryOut'.nav = "none"
                /\ Len(entryOut'.alerts) = 1
                /\ loginTask' = NoLoginTask
       /\ entryOut'.step \in {"login", "signup", "response"}
             => UNCHANGED <<store, route>>]_vars

\* handleLogin has stored tokA, u1 and alice in this order and has just
\* navigated to the tabs.
C12_Witness ==
    /\ entryOut.step = "store"
    /\ entryOut.nav = "tabs"
    /\ route = "tabs"
    /\ lastEntry = "login"
    /\ writeLog = StoreKeys
    /\ store = [authToken |-> "tokA", userId |-> "u1", username |-> "alice"]

\* C13: Index leaves the route "index" only in the step in which the read of
\* authToken completes; that step redirects to the tabs if and only if a
\* non-empty authToken was read, and to /login otherwise, also when the read
\* threw.  Until then isAuthenticated is null and only the indicator shows.
C13_RedirectAfterRead ==
    /\ [](route = "index" => (isAuthenticated = "null" /\ IndexRenders(isAuthenticated) = "index"))
    /\ [][/\ (route = "index" /\ route' # "index") => entryOut'.step = "checkAuth"
          /\ entryOut'.step = "checkAuth"
                => /\ route = "index"
                   /\ entryOut'.read # "threw" => entryOut'.read = store.authToken
                   /\ route' = (IF entryOut'.read \in {"threw", NULL, ""}
                                THEN "login" ELSE "tabs")
                   /\ isAuthenticated' = (IF route' = "tabs" THEN "true" ELSE "false")
                   /\ UNCHANGED store]_vars

\* The read of authToken threw although tokB is stored, and Index has
\* redirected to /login.
C13_Witness ==
    /\ entryOut.step = "checkAuth"
    /\ entryOut.read = "threw"
    /\ store.authToken = "tokB"
    /\ isAuthenticated = "false"
    /\ route = "login"

\* C14 as stated: after handleLogin ran to its end the next app start
\* redirects to the tabs; when a confirmed handleLogout completes the three
\* values are absent and the app is at /login, and the next app start
\* redirects to /login; a cancelled logout changes neither store nor route.
C14_LoginLogoutRoundTrip ==
    [][/\ (entryOut'.step = "checkAuth" /\ lastEntry = "login") => route' = "tabs"
       /\ entryOut'.step = "logoutDone" => (store' = EmptyStore /\ route' = "login")
       /\ (entryOut'.step = "checkAuth" /\ lastEntry = "logout") => route' = "login"
       /\ (logoutPc = "confirm" /\ entryOut'.step = "Cancel")
             => UNCHANGED <<store, route>>]_vars

\* C14 as the code has it: after handleLogin ran to its end, undisturbed by
\* a logout, the token of its response is stored and the next app start
\* redirects to the tabs if and only if the read of authToken does not throw
\* and the token is not empty; when a confirmed handleLogout completes the
\* app is at /login, and the three values are absent unless a login handler
\* wrote to the store while the removals ran; after an undisturbed logout
\* the next app start redirects to /login; a cancelled logout changes
\* neither store nor route.
C14_RoundTripThroughStore ==
    [][/\ (entryOut'.step = "checkAuth" /\ lastEntry = "login")
             => /\ store.authToken # NULL
                /\ route' = (IF entryOut'.read \in {"threw", ""} THEN "login" ELSE "tabs")
       /\ entryOut'.step = "logoutDone"
             => /\ route' = "login"
                /\ lastEntry' \in {"logout", "raced"}
                /\ lastEntry' = "logout" => store' = EmptyStore
       /\ (entryOut'.step = "checkAuth" /\ lastEntry = "logout")
             => (store = EmptyStore /\ route' = "login")
       /\ (logoutPc = "confirm" /\ entryOut'.step = "Cancel")
             => /\ UNCHANGED <<store, route, lastEntry>>
                /\ logoutPc' = "idle"]_vars

\* The logout has completed and the app is at /login with nothing stored,
\* after a login had stored tokA.
C14_Witness ==
    /\ entryOut.step = "logoutDone"
    /\ lastEntry = "logout"
    /\ store = EmptyStore
    /\ route = "login"
    /\ writeLog = StoreKeys

\* C15: RanchScreen shows only transactions of the ranch it is showing: every
\* transaction in proposals and in ledger has the groupID of the current
\* route id.
C15_OnlyThisRanch ==
    screen = "ranch" =>
        /\ \A i \in DOMAIN proposals : proposals[i].groupID = id
        /\ \A i \in DOMAIN ledger : ledger[i].groupID = id

\* The positions of the response that hold a transaction of group gid.
OfGroup(txns, gid) == {i \in DOMAIN txns : txns[i].groupID = gid}

\* sub holds the elements of txns at the positions in pos, in the order of txns.
IsSelection(sub, txns, pos) ==
    /\ Len(sub) = Cardinality(pos)
    /\ \E f \in [DOMAIN sub -> pos] :
          /\ \A i \in DOMAIN sub : sub[i] = txns[f[i]]
          /\ \A i, j \in DOMAIN sub : i < j => f[i] < f[j]

\* C16: after a successful fetchProposals, proposals is the response's
\* transactions of the group the fetch was started for whose status is not
\* 'executed' and ledger those whose status is 'executed', both in response
\* order, disjoint and together all of the group's transactions in the
\* response; after a non-ok response or a thrown error both lists are unchanged.
C16_ProposalsAndLedgerPartition ==
    [][(ranchOut'.act = "response" /\ ranchOut'.pc = "proposals")
          => LET t == ranchOut'.task
                 txns == ranchOut'.body.transactions
                 mine == OfGroup(txns, t.cid)
                 exec == {i \in mine : txns[i].status = "executed"}
             IN  /\ t \in BagToSet(tasks)
                 /\ t.pc = "proposals"
                 /\ IF ranchOut'.outcome = "fetched"
                    THEN /\ IsSelection(proposals', txns, mine \ exec)
                         /\ IsSelection(ledger', txns, exec)
                         /\ Range(proposals') \cap Range(ledger') = {}
                         /\ Range(proposals') \cup Range(ledger')
                               = {txns[i] : i \in mine}
                    ELSE UNCHANGED <<proposals, ledger>>]_vars

\* A response with a rejected and a pending transaction of g1 around one of
\* g2 has arrived.
C16_Witness ==
    /\ ranchOut.act = "response" /\ ranchOut.pc = "proposals"
    /\ ranchOut.outcome = "fetched"
    /\ Len(ranchOut.body.transactions) = 3
    /\ id = "g1"
    /\ Len(proposals) = 2 /\ proposals[1].transactionID = "t3"
    /\ proposals[2].transactionID = "t1"
    /\ ledger = <<>>

\* The request a fetch function of task t sends.
FetchRequest(pc, t) == Get(FetchPath(pc, t.cid), t.ctok)


\* Task t stands at pc with these functions still to call, or has ended.
StandsAt(t, pc, rest) ==
    IF pc = "end"
    THEN /\ tasks' = tasks (-) SetToBag({t})
         /\ ranchOut'.sent = <<>>
    ELSE /\ tasks' = (tasks (-) SetToBag({t}))
                        (+) SetToBag({[t EXCEPT !.pc = pc, !.rest = rest]})
         /\ ranchOut'.sent = <<FetchRequest(pc, t)>>

\* After fetchGroupData: handleVote ends, handleExecute fetches the balance.
AfterGroupData(t) ==
    IF t.op = "vote" THEN StandsAt(t, "end", <<>>) ELSE StandsAt(t, "me", <<>>)

\* C18: after a successful vote the screen fetches the proposals and then the
\* group data, after a successful execute the proposals, the group data and
\* the personal balance, each fetch starting when the previous one has
\* finished; a fetch that succeeds puts the server's transactions and
\* balances on the screen; the success alert is raised before the first fetch.
C18_RefreshInOrder ==
    [][(ranchOut'.act = "response" /\ ranchOut'.op \in {"vote", "execute"}) =>
         LET t == ranchOut'.task IN
            CASE t.pc = "mutate" /\ ranchOut'.outcome = "ok" ->
                    /\ StandsAt(t, "proposals",
                                IF t.op = "vote"
                                THEN <<"fetchGroupData">>
                                ELSE <<"fetchGroupData", "fetchPersonalBalance">>)
                    /\ ranchOut'.alerts = SuccessAlerts(t.op)
                    /\ ranchOut'.order = <<"alert", "request">>
              [] t.pc = "mutate" /\ ranchOut'.outcome # "ok" ->
                    StandsAt(t, "end", <<>>)
              [] t.pc = "proposals" ->
                    /\ StandsAt(t, "group", IF t.op = "vote" THEN <<>>
                                            ELSE <<"fetchPersonalBalance">>)
                    /\ ranchOut'.outcome = "fetched"
                          => /\ proposals' = PendingProposals(ranchOut'.body.transactions, t.cid)
                             /\ ledger' = ExecutedTransactions(ranchOut'.body.transactions, t.cid)
              [] t.pc = "group" ->
                    IF ranchOut'.outcome = "fetched"
                    THEN /\ StandsAt(t, "users", t.rest)
                         /\ ranchBalance' = GroupBalanceOf(ranchOut'.body)
                    ELSE AfterGroupData(t)
              [] t.pc = "users" -> AfterGroupData(t)
              [] t.pc = "me" ->
                    /\ StandsAt(t, "end", <<>>)
                    /\ ranchOut'.outcome = "fetched"
                          => personalBalance' = PersonalBalanceOf(ranchOut'.body)]_vars

\* handleExecute has run to its end: its last fetch, of the personal balance,
\* was answered and the balance shown is the server's.
C18_Witness ==
    /\ ranchOut.act = "response" /\ ranchOut.op = "execute" /\ ranchOut.pc = "me"
    /\ ranchOut.outcome = "fetched"
    /\ personalBalance = 5000
    /\ ranchBalance = 12350
    /\ tasks = EmptyBag

\* The text in the amount input of a submit handler, as a number of 1/1000
\* when it is one: [ok |-> FALSE] when parseFloat gives NaN.
Entered(op) ==
    LET x == ParseFloat(IF op = "deposit" THEN depositAmount ELSE transactionAmount)
    IN  IF x.nan \/ x.scale > 3
        THEN [ok |-> FALSE, milli |-> 0]
        ELSE [ok |-> TRUE, milli |-> x.num * Pow10(3 - x.scale)]

\* The balance a submit handler compares the amount with.
Limit(op) == IF op = "withdraw" THEN ranchBalance ELSE personalBalance

ModalsOpen == <<investModalVisible, withdrawModalVisible, depositModalVisible>>

\* C19: a submit handler sends its request only when the amount entered is a
\* number greater than 0 and not greater than the balance held (personal
\* balance for invest and deposit, ranch balance for withdraw); when it
\* rejects the input, loading stays false and the modals stay as they are.
C19_RequestOnlyForValidAmount ==
    [][(ranchOut'.act = "handler" /\ ranchOut'.op \in {"invest", "withdraw", "deposit"})
          => LET amt == Entered(ranchOut'.op) IN
             IF ranchOut'.sent # <<>>
             THEN /\ amt.ok
                  /\ amt.milli > 0
                  /\ amt.milli <= Limit(ranchOut'.op)
             ELSE /\ ~loading'
                  /\ ModalsOpen' = ModalsOpen
                  /\ ranchOut'.alerts # <<>>]_vars

\* A withdrawal of 9 from a ranch holding 7 was rejected with the modal open.
C19_Witness ==
    /\ ranchOut.act = "handler"
    /\ ranchOut.op = "withdraw" /\ ranchOut.sent = <<>>
    /\ transactionAmount = <<"9">> /\ ranchBalance = 7000
    /\ withdrawModalVisible /\ ~loading
    /\ ranchOut.alerts = <<<<"Insufficient Balance", "cannot withdraw">>>>

\* C20: every request the screen sends carries the token loaded from
\* storage; none is sent while authToken is null.
C20_EveryRequestCarriesToken ==
    [][\A i \in DOMAIN ranchOut'.sent :
          /\ authToken' # NULL
          /\ ranchOut'.sent[i].auth = Bearer(storage.authToken)]_vars

\* The transactions of a response that are pending and carry no vote of uid.
AwaitingVoteOf(r, uid) ==
    {i \in DOMAIN r.txns : r.txns[i].status = "pending" /\ uid \notin DOMAIN r.txns[i].votes}

\* The response was ok and was read: its body parsed, with a transactions
\* member, and the read of userId did not throw.
ReadOk(out) == out.resp.kind = "ok" /\ out.resp.parses /\ out.resp.hasTxns /\ ~out.threw

\* C17: fetchPendingApprovals returns the number of the ranch's pending
\* transactions in whose votes the stored userId has no entry, and 0 when no
\* userId is stored, when the response is not ok and when the call throws;
\* the ranches loaded hold the counts returned, and the banner is shown
\* exactly when one of them is greater than 0.
C17_PendingApprovalsAndBanner ==
    /\ [](screen = "home" =>
            (BannerShown <=> \E i \in DOMAIN ranches : ranches[i].pendingApprovals > 0))
    /\ [][/\ homeOut'.step \in {"count", "loaded"}
                => homeOut'.result =
                      IF ReadOk(homeOut') /\ store.userId # NULL
                      THEN Cardinality(AwaitingVoteOf(homeOut'.resp, store.userId))
                      ELSE 0
          /\ homeOut'.step = "loaded"
                => \E k \in HomeSlots :
                      /\ homeTasks[k].pc = "approvals"
                      /\ homeTasks'[k].pc = "idle"
                      /\ Len(ranches') = Len(homeTasks[k].groups)
                      /\ \A i \in DOMAIN ranches' :
                            /\ ranches'[i].id = homeTasks[k].groups[i]
                            /\ ranches'[i].pendingApprovals =
                                  IF homeTasks[k].counts[i] = UNDEF
                                  THEN homeOut'.result
                                  ELSE homeTasks[k].counts[i]]_vars

\* Two ranches are loaded; the last count returned was 1, of a response with
\* two pending transactions of which the user has voted on one, and the
\* banner is shown.
C17_Witness ==
    /\ homeOut.step = "loaded"
    /\ homeOut.result = 1
    /\ Len(homeOut.resp.txns) = 3
    /\ store.userId = "u1"
    /\ Len(ranches) = 2
    /\ BannerShown

\* C21: handleKickMember removes the member from memberList and nothing
\* else: it sends no request and leaves memberCount, the votes needed, the
\* proposals, the ledger and the balances as they are; a fetchGroupData that
\* succeeds afterwards sets memberList to the server's members and
\* memberCount to their number.
C21_KickIsLocalOnly ==
    [][/\ ranchOut'.act = "kick" =>
             LET member == ranchOut'.alerts[1][2] IN
             /\ Range(memberList') = Range(memberList) \ {member}
             /\ member \in Range(memberList)
             /\ Len(memberList') < Len(memberList)
             /\ ranchOut'.sent = <<>>
             /\ tasks' = tasks
             /\ VotesNeeded' = VotesNeeded
             /\ UNCHANGED <<memberCount, proposals, ledger, ranchBalance, investedAmount,
                            totalAssets, personalBalance>>
       /\ (ranchOut'.act = "response" /\ ranchOut'.pc = "group"
              /\ ranchOut'.outcome = "fetched") =>
             /\ memberList' = ranchOut'.body.gMembers
             /\ memberCount' = Len(ranchOut'.body.gMembers)]_vars

\* u2 was kicked from a ranch of two: the list shows one member while two
\* are counted and one vote is still needed.
C21_Witness ==
    /\ ranchOut.act = "kick"
    /\ ranchOut.alerts = <<<<"Kick Member", "u2">>>>
    /\ memberList = <<"u1">>
    /\ memberCount = 2
    /\ VotesNeeded = 1

====
